---- MODULE Spec2Model ----
(***************************************************************************)
(* GeoNames FST gazetteer: ingestion of primary and alternate-name rows,   *)
(* construction of the term index (sorted unique terms, provenance groups, *)
(* transducer), and the five query entry points with their automata.       *)
(*                                                                         *)
(* Strings that are compared bytewise or fed to automata (names, terms,    *)
(* queries) are sequences of bytes; the bytes used are 1 ("a") and 2       *)
(* ("b").  Strings that are only tested for equality (languages, feature   *)
(* codes, flags) are TLA+ strings.  Coordinates, administrative divisions  *)
(* and elevation are carried by no operation modelled here and are left    *)
(* out of the record.                                                      *)
(***************************************************************************)
EXTENDS Integers, Sequences, FiniteSets, TLC

(***************************************************************************)
(* Bounds of the model.                                                    *)
(***************************************************************************)
MaxPrimaryRows == 2
MaxAlternateRows == 1
CorpusPrimaryRows == 2
CorpusAlternateRows == 1

(***************************************************************************)
(* Generic helpers.                                                        *)
(***************************************************************************)
None == [some |-> FALSE]
Some(v) == [some |-> TRUE, v |-> v]

Front(s) == SubSeq(s, 1, Len(s) - 1)
Last(s) == s[Len(s)]
Min2(a, b) == IF a <= b THEN a ELSE b

RECURSIVE SeqsUpTo(_, _)
SeqsUpTo(S, n) ==
    IF n = 0 THEN {<<>>}
    ELSE LET shorter == SeqsUpTo(S, n - 1)
         IN  shorter \cup {Append(s, x) : s \in shorter, x \in S}

\* Ord for String / [u8]: bytewise lexicographic order.
RECURSIVE StrLess(_, _)
StrLess(s, t) ==
    IF t = <<>> THEN FALSE
    ELSE IF s = <<>> THEN TRUE
    ELSE IF Head(s) # Head(t) THEN Head(s) < Head(t)
    ELSE StrLess(Tail(s), Tail(t))

StrLessEq(s, t) == s = t \/ StrLess(s, t)

(***************************************************************************)
(* MatchType (geonames/data.rs).                                           *)
(***************************************************************************)
Name(id) == [kind |-> "Name", id |-> id]
AsciiName(id) == [kind |-> "AsciiName", id |-> id]
PreferredName(id, lang) == [kind |-> "PreferredName", id |-> id, lang |-> lang]
ShortName(id, lang) == [kind |-> "ShortName", id |-> id, lang |-> lang]
Colloquial(id, lang) == [kind |-> "Colloquial", id |-> id, lang |-> lang]
Historic(id, lang, from, to) ==
    [kind |-> "Historic", id |-> id, lang |-> lang, from |-> from, to |-> to]
Alternate(id, lang) == [kind |-> "Alternate", id |-> id, lang |-> lang]

MatchType_id(typ) == typ.id

MatchType_ord(typ) ==
    CASE typ.kind = "Name" -> 0
      [] typ.kind = "AsciiName" -> 1
      [] typ.kind = "PreferredName" -> 2
      [] typ.kind = "ShortName" -> 3
      [] typ.kind = "Colloquial" -> 4
      [] typ.kind = "Historic" -> 5
      [] typ.kind = "Alternate" -> 6

\* Ord for MatchType: -1, 0 or 1 (Less, Equal, Greater).
CmpNat(a, b) == IF a < b THEN -1 ELSE IF a = b THEN 0 ELSE 1

MatchType_cmp(a, b) ==
    LET cmp == CmpNat(MatchType_ord(a), MatchType_ord(b))
    IN  IF cmp = 0 THEN CmpNat(MatchType_id(a), MatchType_id(b)) ELSE cmp

\* Ord for MatchKey: the name is not compared.
MatchKey_cmp(a, b) == MatchType_cmp(a.typ, b.typ)

(***************************************************************************)
(* Input rows.  A row is a csv record: ncols columns are present, get(k)   *)
(* is None for k >= ncols.  The identifier column holds an integer; a      *)
(* negative one is text that does not parse as u64.                        *)
(***************************************************************************)
PrimaryRow(ncols, id, name, ascii, fclass, fcode, cc) ==
    [ncols |-> ncols, id |-> id, name |-> name, asciiname |-> ascii,
     feature_class |-> fclass, feature_code |-> fcode, country_code |-> cc]

GoodPrimaryRows ==
    { PrimaryRow(19, 1, <<1, 2>>, <<1>>, "P", "PPL", "DE"),
      PrimaryRow(19, 1, <<1>>, <<1>>, "T", "MT", "DE"),
      PrimaryRow(19, 2, <<1, 2, 2>>, <<2>>, "P", "PPL", "FR"),
      PrimaryRow(19, 2, <<1>>, <<1>>, "P", "MT", "DE"),
      PrimaryRow(19, 2, <<>>, <<2>>, "T", "PPL", "DE"),
      PrimaryRow(3, 1, <<2>>, <<>>, "", "", "") }

BadPrimaryRows ==
    { PrimaryRow(19, -1, <<1>>, <<1>>, "P", "PPL", "DE"),
      PrimaryRow(2, 1, <<1>>, <<>>, "", "", ""),
      PrimaryRow(1, 2, <<>>, <<>>, "", "", "") }

PrimaryRows == GoodPrimaryRows \cup BadPrimaryRows

AlternateRow(ncols, id, lang, name, preferred, short, colloquial, historic, from, to) ==
    [ncols |-> ncols, id |-> id, lang |-> lang, name |-> name,
     preferred |-> preferred, short |-> short, colloquial |-> colloquial,
     historic |-> historic, from |-> from, to |-> to]

Flags == {"1", "0"}

AlternateRows ==
    { AlternateRow(10, 1, "de", <<1>>, p, s, c, h, "1900", "1950") :
        p \in Flags, s \in Flags, c \in Flags, h \in Flags }
    \cup
    { AlternateRow(10, 2, "fr", <<1, 2, 2>>, "0", "1", "0", "0", "", ""),
      AlternateRow(10, 3, "de", <<2>>, "1", "0", "0", "0", "", ""),
      AlternateRow(8, 1, "de", <<2>>, "0", "0", "0", "1", "", ""),
      AlternateRow(10, 2, "de", <<>>, "true", "0", "0", "0", "", ""),
      AlternateRow(10, -1, "de", <<1>>, "1", "0", "0", "0", "", ""),
      AlternateRow(10, -1, "fr", <<1>>, "1", "0", "0", "0", "", ""),
      AlternateRow(5, 1, "de", <<1>>, "1", "0", "0", "0", "", "") }

\* The --languages option: absent, or the list given.
LanguageOptions == {None, Some({"de"})}

(***************************************************************************)
(* Ingestion (geonames/utils.rs).                                          *)
(***************************************************************************)
\* HashMap<u64, GeoNamesEntry>: a function whose domain is the set of keys.
EmptyMap == <<>>
contains_key(m, k) == k \in DOMAIN m
HashMap_insert(m, k, v) ==
    [x \in (DOMAIN m) \cup {k} |-> IF x = k THEN v ELSE m[x]]

\* record.get(k): Some(column) when the row has more than k columns.
HasCol(row, k) == k < row.ncols

\* str::parse::<u64>
ParseU64Ok(n) == n >= 0

GeoNamesEntry(id, name, fclass, fcode, cc) ==
    [id |-> id, name |-> name, feature_class |-> fclass,
     feature_code |-> fcode, country_code |-> cc]

Err(msg) == [ok |-> FALSE, error |-> msg]

\* The pairs of a primary row with the AsciiName pair pushed whatever the
\* ASCII name.
PrimaryPairs_ascii_always(id, name, name_ascii) ==
    << <<name_ascii, AsciiName(id)>>, <<name, Name(id)>> >>

\* The pairs pushed for one primary row.
PrimaryPairs(id, name, name_ascii) ==
    (IF name_ascii # name THEN << <<name_ascii, AsciiName(id)>> >> ELSE <<>>)
    \o << <<name, Name(id)>> >>

\* The loop body skipping a row it cannot parse instead of returning Err.
parse_geonames_row_bad_skipped(pairs, gn, row) ==
    IF ~HasCol(row, 0) \/ ~ParseU64Ok(row.id) \/ ~HasCol(row, 1) \/ ~HasCol(row, 2)
    THEN [ok |-> TRUE, query_pairs |-> pairs, geonames |-> gn]
    ELSE
      LET id == row.id
          feature_class == IF HasCol(row, 6) THEN row.feature_class ELSE "<missing>"
          feature_code == IF HasCol(row, 7) THEN row.feature_code ELSE "<missing>"
          country_code == IF HasCol(row, 8) THEN row.country_code ELSE "<missing>"
      IN  [ok |-> TRUE,
           query_pairs |-> pairs \o PrimaryPairs(id, row.name, row.asciiname),
           geonames |-> HashMap_insert(gn, id,
               GeoNamesEntry(id, row.name, feature_class, feature_code, country_code))]

\* One iteration of the loop of parse_geonames_file over `row`.
parse_geonames_row(pairs, gn, row) ==
    IF ~HasCol(row, 0) THEN Err("no geoname_id")
    ELSE IF ~ParseU64Ok(row.id) THEN Err("ParseIntError")
    ELSE IF ~HasCol(row, 1) THEN Err("no name")
    ELSE IF ~HasCol(row, 2) THEN Err("no ascii name")
    ELSE
      LET id == row.id
          feature_class == IF HasCol(row, 6) THEN row.feature_class ELSE "<missing>"
          feature_code == IF HasCol(row, 7) THEN row.feature_code ELSE "<missing>"
          country_code == IF HasCol(row, 8) THEN row.country_code ELSE "<missing>"
      IN  [ok |-> TRUE,
           query_pairs |-> pairs \o PrimaryPairs(id, row.name, row.asciiname),
           geonames |-> HashMap_insert(gn, id,
               GeoNamesEntry(id, row.name, feature_class, feature_code, country_code))]

\* The match with the first flag set deciding, whatever the others.
AlternateMatchType_first_flag(id, lang, preferred, short, colloquial, historic, from, to) ==
    CASE preferred -> PreferredName(id, lang)
      [] ~preferred /\ short -> ShortName(id, lang)
      [] ~preferred /\ ~short /\ colloquial -> Colloquial(id, lang)
      [] ~preferred /\ ~short /\ ~colloquial /\ historic -> Historic(id, lang, from, to)
      [] OTHER -> Alternate(id, lang)

\* The match on (preferred, short, colloquial, historic).
AlternateMatchType(id, lang, preferred, short, colloquial, historic, from, to) ==
    CASE preferred /\ ~short /\ ~colloquial /\ ~historic -> PreferredName(id, lang)
      [] ~preferred /\ short /\ ~colloquial /\ ~historic -> ShortName(id, lang)
      [] ~preferred /\ ~short /\ colloquial /\ ~historic -> Colloquial(id, lang)
      [] ~preferred /\ ~short /\ ~colloquial /\ historic -> Historic(id, lang, from, to)
      [] OTHER -> Alternate(id, lang)

\* parse_alternate_names_row without the test that the Entry Store holds the
\* identifier.
parse_alternate_names_row_unknown_id(pairs, gn, include_languages, row) ==
    IF ~HasCol(row, 2) THEN Err("no language")
    ELSE IF include_languages.some /\ row.lang \notin include_languages.v
      THEN [ok |-> TRUE, query_pairs |-> pairs]
    ELSE IF ~HasCol(row, 1) THEN Err("no geoname_id")
    ELSE IF ~ParseU64Ok(row.id) THEN Err("ParseIntError")
    ELSE IF ~HasCol(row, 7) THEN Err("no historic")
    ELSE [ok |-> TRUE,
          query_pairs |-> Append(pairs, <<row.name, Alternate(row.id, row.lang)>>)]

\* parse_alternate_names_row without the language test.
parse_alternate_names_row_any_language(pairs, gn, include_languages, row) ==
    IF ~HasCol(row, 2) THEN Err("no language")
    ELSE IF ~HasCol(row, 1) THEN Err("no geoname_id")
    ELSE IF ~ParseU64Ok(row.id) THEN Err("ParseIntError")
    ELSE IF ~contains_key(gn, row.id) THEN [ok |-> TRUE, query_pairs |-> pairs]
    ELSE IF ~HasCol(row, 7) THEN Err("no historic")
    ELSE
      LET from == IF HasCol(row, 8) THEN row.from ELSE ""
          to == IF HasCol(row, 9) THEN row.to ELSE ""
          mtch == AlternateMatchType(row.id, row.lang, row.preferred = "1",
                     row.short = "1", row.colloquial = "1", row.historic = "1",
                     from, to)
      IN  [ok |-> TRUE, query_pairs |-> Append(pairs, <<row.name, mtch>>)]

\* One iteration of the loop of parse_alternate_names_file over `row`;
\* `continue` leaves the pairs as they are.
parse_alternate_names_row(pairs, gn, include_languages, row) ==
    IF ~HasCol(row, 2) THEN Err("no language")
    ELSE IF include_languages.some /\ row.lang \notin include_languages.v
      THEN [ok |-> TRUE, query_pairs |-> pairs]
    ELSE IF ~HasCol(row, 1) THEN Err("no geoname_id")
    ELSE IF ~ParseU64Ok(row.id) THEN Err("ParseIntError")
    ELSE IF ~contains_key(gn, row.id) THEN [ok |-> TRUE, query_pairs |-> pairs]
    ELSE IF ~HasCol(row, 3) THEN Err("no name")
    ELSE IF ~HasCol(row, 4) THEN Err("no preferred")
    ELSE IF ~HasCol(row, 5) THEN Err("no short")
    ELSE IF ~HasCol(row, 6) THEN Err("no colloquial")
    ELSE IF ~HasCol(row, 7) THEN Err("no historic")
    ELSE
      LET from == IF HasCol(row, 8) THEN row.from ELSE ""
          to == IF HasCol(row, 9) THEN row.to ELSE ""
          mtch == AlternateMatchType(row.id, row.lang, row.preferred = "1",
                     row.short = "1", row.colloquial = "1", row.historic = "1",
                     from, to)
      IN  [ok |-> TRUE, query_pairs |-> Append(pairs, <<row.name, mtch>>)]

\* parse_geonames_file over the rows of one file.
RECURSIVE parse_geonames_file(_, _, _)
parse_geonames_file(rows, pairs, gn) ==
    IF rows = <<>> THEN [ok |-> TRUE, query_pairs |-> pairs, geonames |-> gn]
    ELSE LET r == parse_geonames_row(pairs, gn, Head(rows))
         IN  IF r.ok THEN parse_geonames_file(Tail(rows), r.query_pairs, r.geonames)
             ELSE r

\* parse_alternate_names_file over the rows of one file.
RECURSIVE parse_alternate_names_file(_, _, _, _)
parse_alternate_names_file(rows, pairs, gn, include_languages) ==
    IF rows = <<>> THEN [ok |-> TRUE, query_pairs |-> pairs]
    ELSE LET r == parse_alternate_names_row(pairs, gn, include_languages, Head(rows))
         IN  IF r.ok
             THEN parse_alternate_names_file(Tail(rows), r.query_pairs, gn,
                                             include_languages)
             ELSE r

(***************************************************************************)
(* Term index builder (GeoNamesSearcher::build, geonames/searcher.rs).     *)
(***************************************************************************)
\* Number of leading elements of `sorted` whose term is <= term.
RECURSIVE CountLessEq(_, _)
CountLessEq(sorted, term) ==
    IF sorted = <<>> \/ ~StrLessEq(Head(sorted)[1], term) THEN 0
    ELSE 1 + CountLessEq(Tail(sorted), term)

\* build without the sort: the pairs in ingestion order.
sort_by_term_skipped(pairs) == pairs

\* A sort by term that is not stable: a pair goes before the pairs of equal
\* term that are already placed.
RECURSIVE sort_by_term_unstable(_)
sort_by_term_unstable(pairs) ==
    IF pairs = <<>> THEN <<>>
    ELSE LET sorted == sort_by_term_unstable(Front(pairs))
             x == Last(pairs)
             k == Cardinality({i \in 1..Len(sorted) : StrLess(sorted[i][1], x[1])})
         IN  SubSeq(sorted, 1, k) \o <<x>> \o SubSeq(sorted, k + 1, Len(sorted))

\* query_pairs.sort_by(|a, b| a.0.cmp(&b.0)): a stable sort by term.
RECURSIVE sort_by_term(_)
sort_by_term(pairs) ==
    IF pairs = <<>> THEN <<>>
    ELSE LET sorted == sort_by_term(Front(pairs))
             x == Last(pairs)
             k == CountLessEq(sorted, x[1])
         IN  SubSeq(sorted, 1, k) \o <<x>> \o SubSeq(sorted, k + 1, Len(sorted))

\* The grouping loop: `acc` is (search_terms, search_matches, last_term) and
\* panic records an unwrap of last_mut() on an empty list.
RECURSIVE GroupPairs(_, _)
GroupPairs(pairs, acc) ==
    IF pairs = <<>> \/ acc.panic THEN acc
    ELSE
      LET term == Head(pairs)[1]
          mtch == Head(pairs)[2]
          n == Len(acc.search_matches)
      IN  IF term = <<>> THEN GroupPairs(Tail(pairs), acc)
          ELSE IF term = acc.last_term
            THEN IF n = 0 THEN [acc EXCEPT !.panic = TRUE]
                 ELSE GroupPairs(Tail(pairs),
                        [acc EXCEPT !.search_matches[n] = Append(@, mtch),
                                    !.last_term = term])
          ELSE GroupPairs(Tail(pairs),
                 [acc EXCEPT !.search_terms = Append(@, term),
                             !.search_matches = Append(@, <<mtch>>),
                             !.last_term = term])

prepare_search_terms(sorted_pairs) ==
    GroupPairs(sorted_pairs,
        [search_terms |-> <<>>, search_matches |-> <<>>, last_term |-> <<>>,
         panic |-> FALSE])

\* MapBuilder::insert over enumerate(search_terms): a key that is not
\* strictly greater than the one before is refused and the unwrap panics.
\* The map is the list of (key, ordinal) in insertion order.
RECURSIVE MapBuilder_insert_all(_, _, _)
MapBuilder_insert_all(terms, i, acc) ==
    IF i > Len(terms) \/ acc.panic THEN acc
    ELSE IF acc.map # <<>> /\ ~StrLess(Last(acc.map)[1], terms[i])
      THEN [acc EXCEPT !.panic = TRUE]
    ELSE MapBuilder_insert_all(terms, i + 1,
            [acc EXCEPT !.map = Append(@, <<terms[i], i - 1>>)])

build_fst(terms) == MapBuilder_insert_all(terms, 1, [map |-> <<>>, panic |-> FALSE])

\* Lines 107-147 of build: sort, group, build the transducer.
build_index(pairs) ==
    LET grouped == prepare_search_terms(sort_by_term(pairs))
        fst == build_fst(grouped.search_terms)
    IN  [panic |-> grouped.panic \/ fst.panic,
         search_terms |-> grouped.search_terms,
         search_matches |-> grouped.search_matches,
         map |-> fst.map]

(***************************************************************************)
(* Automata (the fst Automaton contract: start, accept, is_match).         *)
(***************************************************************************)
\* Str: the state is Some(position in the query) or None (pos = -1).
Str_accept(query, pos, byte) ==
    IF pos >= 0 /\ pos < Len(query) /\ query[pos + 1] = byte THEN pos + 1 ELSE -1
Str_is_match(query, pos) == pos = Len(query)

\* Str::new(query).starts_with(): Done, or Running(state of Str).
StartsWith(query) == [kind |-> "StartsWith", query |-> query]
StartsWith_start(aut) ==
    IF Str_is_match(aut.query, 0) THEN [done |-> TRUE, pos |-> 0]
    ELSE [done |-> FALSE, pos |-> 0]
\* A prefix automaton matching while it has not failed.
StartsWith_is_match_not_failed(aut, state) == state.done \/ state.pos >= 0
StartsWith_is_match(aut, state) == state.done
\* A prefix automaton that starts over after a byte that does not fit.
StartsWith_accept_restarting(aut, state, byte) ==
    IF state.done THEN state
    ELSE LET next == Str_accept(aut.query, state.pos, byte)
         IN  IF Str_is_match(aut.query, next) THEN [done |-> TRUE, pos |-> next]
             ELSE [done |-> FALSE, pos |-> IF next < 0 THEN 0 ELSE next]

StartsWith_accept(aut, state, byte) ==
    IF state.done THEN state
    ELSE LET next == Str_accept(aut.query, state.pos, byte)
         IN  IF Str_is_match(aut.query, next) THEN [done |-> TRUE, pos |-> next]
             ELSE [done |-> FALSE, pos |-> next]

\* Subsequence::new(query): the state is the number of query bytes matched.
Subsequence(query) == [kind |-> "Subsequence", query |-> query]
Subsequence_start(aut) == 0
Subsequence_is_match(aut, state) == state = Len(aut.query)
\* A subsequence automaton that starts over after a byte that does not fit.
Subsequence_accept_contiguous(aut, state, byte) ==
    IF state = Len(aut.query) THEN state
    ELSE IF byte = aut.query[state + 1] THEN state + 1
    ELSE 0

Subsequence_accept(aut, state, byte) ==
    IF state = Len(aut.query) THEN state
    ELSE IF byte = aut.query[state + 1] THEN state + 1
    ELSE state

\* Levenshtein: the state is the row of the edit-distance table, row[i + 1]
\* being the distance between the first i query characters and the input.
Levenshtein(query, dist) == [kind |-> "Levenshtein", query |-> query, dist |-> dist]
Levenshtein_start(aut) == [i \in 1..(Len(aut.query) + 1) |-> i - 1]
Levenshtein_is_match(aut, state) == state[Len(aut.query) + 1] <= aut.dist
RECURSIVE LevRow(_, _, _, _)
LevRow(aut, prev, byte, acc) ==
    IF Len(acc) = Len(prev) THEN acc
    ELSE LET i == Len(acc)
             cost == IF aut.query[i] = byte THEN 0 ELSE 1
         IN  LevRow(aut, prev, byte,
                 Append(acc, Min2(Min2(acc[i] + 1, prev[i + 1] + 1), prev[i] + cost)))
Levenshtein_accept(aut, state, byte) == LevRow(aut, state, byte, <<state[1] + 1>>)

\* A regular expression is written over the bytes 1, 2 and the
\* metacharacters below: "^" literals, optionally followed by ".*".
\* A pattern holding "(" has an unclosed group and does not compile.
RegexCaret == <<10>>
RegexDotStar == <<11, 12>>
RegexOpenGroup == <<13>>

IsLiteral(byte) == byte \in {1, 2}

\* RegexSearchAutomaton::from_str: the compiled pattern or the error.
RegexSearchAutomaton_from_str(pattern) ==
    IF \E i \in 1..Len(pattern) : pattern[i] = RegexOpenGroup[1]
    THEN Err("unclosed group")
    ELSE LET body == SelectSeq(pattern, IsLiteral)
             open == Len(pattern) >= 2
                        /\ SubSeq(pattern, Len(pattern) - 1, Len(pattern)) = RegexDotStar
         IN  [ok |-> TRUE,
              automaton |-> [kind |-> "Regex", query |-> body, open |-> open]]
\* The state is Some(position) or the dead state -1; after the literals an
\* open pattern stays at the end position on every byte.
Regex_start(aut) == 0
Regex_is_match(aut, state) == state = Len(aut.query)
Regex_accept(aut, state, byte) ==
    IF state = Len(aut.query) THEN (IF aut.open THEN state ELSE -1)
    ELSE Str_accept(aut.query, state, byte)

Automaton_start(aut) ==
    CASE aut.kind = "StartsWith" -> StartsWith_start(aut)
      [] aut.kind = "Subsequence" -> Subsequence_start(aut)
      [] aut.kind = "Levenshtein" -> Levenshtein_start(aut)
      [] aut.kind = "Regex" -> Regex_start(aut)
Automaton_accept(aut, state, byte) ==
    CASE aut.kind = "StartsWith" -> StartsWith_accept(aut, state, byte)
      [] aut.kind = "Subsequence" -> Subsequence_accept(aut, state, byte)
      [] aut.kind = "Levenshtein" -> Levenshtein_accept(aut, state, byte)
      [] aut.kind = "Regex" -> Regex_accept(aut, state, byte)
Automaton_is_match(aut, state) ==
    CASE aut.kind = "StartsWith" -> StartsWith_is_match(aut, state)
      [] aut.kind = "Subsequence" -> Subsequence_is_match(aut, state)
      [] aut.kind = "Levenshtein" -> Levenshtein_is_match(aut, state)
      [] aut.kind = "Regex" -> Regex_is_match(aut, state)

\* The automaton driven along the bytes of a key.
RECURSIVE RunAutomaton(_, _, _)
RunAutomaton(aut, state, key) ==
    IF key = <<>> THEN state
    ELSE RunAutomaton(aut, Automaton_accept(aut, state, Head(key)), Tail(key))

Accepts(aut, key) == Automaton_is_match(aut, RunAutomaton(aut, Automaton_start(aut), key))

(***************************************************************************)
(* The transducer (fst::Map) as the searcher uses it.                      *)
(***************************************************************************)
\* Map::get: the ordinal of the key, or None.
Map_get(m, key) ==
    IF \E i \in 1..Len(m) : m[i][1] = key
    THEN Some(m[CHOOSE i \in 1..Len(m) : m[i][1] = key][2])
    ELSE None

\* Map::search(automaton).into_stream(): the accepted (key, ordinal) pairs
\* in key order.
RECURSIVE Map_search(_, _)
Map_search(m, aut) ==
    IF m = <<>> THEN <<>>
    ELSE (IF Accepts(aut, Head(m)[1]) THEN <<Head(m)>> ELSE <<>>)
         \o Map_search(Tail(m), aut)

\* levenshtein::levenshtein(a, b): the edit distance, computed one character
\* of b at a time over a cache holding, for every prefix of a, its distance
\* to the part of b read so far.
RECURSIVE LevenshteinCache(_, _, _, _)
LevenshteinCache(a, cache, code_b, acc) ==
    IF Len(acc) = Len(cache) THEN acc
    ELSE LET index_a == Len(acc)
             distance_b == cache[index_a] + (IF a[index_a] = code_b THEN 0 ELSE 1)
         IN  LevenshteinCache(a, cache, code_b,
                 Append(acc, Min2(Min2(cache[index_a + 1] + 1, acc[index_a] + 1),
                                  distance_b)))

RECURSIVE LevenshteinRead(_, _, _)
LevenshteinRead(a, cache, b) ==
    IF b = <<>> THEN cache
    ELSE LevenshteinRead(a, LevenshteinCache(a, cache, Head(b), <<cache[1] + 1>>),
                         Tail(b))

\* The difference of the lengths in place of the edit distance.
levenshtein_dist_length_difference(a, b) ==
    IF Len(a) <= Len(b) THEN Len(b) - Len(a) ELSE Len(a) - Len(b)

levenshtein_dist(a, b) ==
    LevenshteinRead(a, [i \in 1..(Len(a) + 1) |-> i - 1], b)[Len(a) + 1]

(***************************************************************************)
(* Results and their order (geonames/data.rs).                             *)
(***************************************************************************)
GeoNamesSearchResult_new(key, typ, gn) ==
    [key |-> [name |-> key, typ |-> typ], entry |-> gn]
GeoNamesSearchResultWithDist_new(key, typ, gn, dist) ==
    [key |-> [name |-> key, typ |-> typ], entry |-> gn, distance |-> dist]

GeoNamesSearchResult_cmp(a, b) == MatchKey_cmp(a.key, b.key)

\* The comparison with the key first and the distance second.
GeoNamesSearchResultWithDist_cmp_key_first(a, b) ==
    LET cmp == MatchKey_cmp(a.key, b.key)
    IN  IF cmp = 0 THEN CmpNat(a.distance, b.distance) ELSE cmp

GeoNamesSearchResultWithDist_cmp(a, b) ==
    LET cmp == CmpNat(a.distance, b.distance)
    IN  IF cmp = 0 THEN MatchKey_cmp(a.key, b.key) ELSE cmp

\* search without the sort: the results in stream order.
sort_results_skipped(results) == results

\* results.sort() on Vec<GeoNamesSearchResult>: a stable sort by cmp.
\* The position of an unstable sort: before the results that compare equal.
RECURSIVE CountLess(_, _)
CountLess(sorted, x) ==
    IF sorted = <<>> \/ GeoNamesSearchResult_cmp(Head(sorted), x) >= 0 THEN 0
    ELSE 1 + CountLess(Tail(sorted), x)

RECURSIVE CountNotGreater(_, _)
CountNotGreater(sorted, x) ==
    IF sorted = <<>> \/ GeoNamesSearchResult_cmp(Head(sorted), x) > 0 THEN 0
    ELSE 1 + CountNotGreater(Tail(sorted), x)

RECURSIVE sort_results(_)
sort_results(results) ==
    IF results = <<>> THEN <<>>
    ELSE LET sorted == sort_results(Front(results))
             x == Last(results)
             k == CountNotGreater(sorted, x)
         IN  SubSeq(sorted, 1, k) \o <<x>> \o SubSeq(sorted, k + 1, Len(sorted))

\* results.sort() on Vec<GeoNamesSearchResultWithDist>.
RECURSIVE CountNotGreaterWithDist(_, _)
CountNotGreaterWithDist(sorted, x) ==
    IF sorted = <<>> \/ GeoNamesSearchResultWithDist_cmp(Head(sorted), x) > 0 THEN 0
    ELSE 1 + CountNotGreaterWithDist(Tail(sorted), x)

RECURSIVE sort_results_with_dist(_)
sort_results_with_dist(results) ==
    IF results = <<>> THEN <<>>
    ELSE LET sorted == sort_results_with_dist(Front(results))
             x == Last(results)
             k == CountNotGreaterWithDist(sorted, x)
         IN  SubSeq(sorted, 1, k) \o <<x>> \o SubSeq(sorted, k + 1, Len(sorted))

(***************************************************************************)
(* GeoNamesSearcher: find, search, search_with_dist.  A searcher is the    *)
(* record (map, geonames, search_matches).  Each returns the list, or      *)
(* panic for an index out of range or an unwrap of a missing record.       *)
(***************************************************************************)
Searcher(m, gn, matches) == [map |-> m, geonames |-> gn, search_matches |-> matches]

Panic == [panic |-> TRUE]
Returned(results) == [panic |-> FALSE, results |-> results]

\* &self.search_matches[gnd as usize] and geonames.get(&typ.id()).unwrap()
\* succeed for every provenance of the group.
GroupResolves(searcher, gnd) ==
    /\ gnd + 1 <= Len(searcher.search_matches)
    /\ \A j \in 1..Len(searcher.search_matches[gnd + 1]) :
         contains_key(searcher.geonames,
                      MatchType_id(searcher.search_matches[gnd + 1][j]))

\* find taking only the first provenance of the group.
find_first_only(searcher, query) ==
    LET got == Map_get(searcher.map, query)
    IN  IF ~got.some THEN Returned(<<>>)
        ELSE IF ~GroupResolves(searcher, got.v) THEN Panic
        ELSE LET matches == searcher.search_matches[got.v + 1]
             IN  Returned(<<GeoNamesSearchResult_new(query, matches[1],
                     searcher.geonames[MatchType_id(matches[1])])>>)

find(searcher, query) ==
    LET got == Map_get(searcher.map, query)
    IN  IF ~got.some THEN Returned(<<>>)
        ELSE IF ~GroupResolves(searcher, got.v) THEN Panic
        ELSE LET matches == searcher.search_matches[got.v + 1]
             IN  Returned([j \in 1..Len(matches) |->
                     GeoNamesSearchResult_new(query, matches[j],
                         searcher.geonames[MatchType_id(matches[j])])])

\* The loop over the stream: the results pushed, in stream and group order.
RECURSIVE search_collect(_, _)
search_collect(searcher, stream) ==
    IF stream = <<>> THEN <<>>
    ELSE LET key == Head(stream)[1]
             matches == searcher.search_matches[Head(stream)[2] + 1]
         IN  [j \in 1..Len(matches) |->
                 GeoNamesSearchResult_new(key, matches[j],
                     searcher.geonames[MatchType_id(matches[j])])]
             \o search_collect(searcher, Tail(stream))

search(searcher, aut) ==
    LET stream == Map_search(searcher.map, aut)
    IN  IF \E i \in 1..Len(stream) : ~GroupResolves(searcher, stream[i][2])
        THEN Panic
        ELSE Returned(sort_results(search_collect(searcher, stream)))

\* The distance test without `distance > 0`: zero filters too.
SkippedByDistance_zero_filters(max_dist, dist) == max_dist.some /\ dist > max_dist.v

\* The distance test with the comparison turned round.
SkippedByDistance_inverted(max_dist, dist) ==
    max_dist.some /\ max_dist.v > 0 /\ dist < max_dist.v

\* if let Some(distance) = max_dist { if distance > 0 && dist > distance { continue } }
SkippedByDistance(max_dist, dist) == max_dist.some /\ max_dist.v > 0 /\ dist > max_dist.v

\* The keys of the stream that pass the distance test.
RECURSIVE KeptByDistance(_, _, _)
KeptByDistance(stream, raw, max_dist) ==
    IF stream = <<>> THEN <<>>
    ELSE (IF SkippedByDistance(max_dist, levenshtein_dist(raw, Head(stream)[1]))
          THEN <<>> ELSE <<Head(stream)>>)
         \o KeptByDistance(Tail(stream), raw, max_dist)

RECURSIVE search_with_dist_collect(_, _, _)
search_with_dist_collect(searcher, stream, raw) ==
    IF stream = <<>> THEN <<>>
    ELSE LET key == Head(stream)[1]
             dist == levenshtein_dist(raw, key)
             matches == searcher.search_matches[Head(stream)[2] + 1]
         IN  [j \in 1..Len(matches) |->
                 GeoNamesSearchResultWithDist_new(key, matches[j],
                     searcher.geonames[MatchType_id(matches[j])], dist)]
             \o search_with_dist_collect(searcher, Tail(stream), raw)

\* search_with_dist without the final sort: the results in stream order.
search_with_dist_unranked(searcher, aut, raw, max_dist) ==
    LET kept == KeptByDistance(Map_search(searcher.map, aut), raw, max_dist)
    IN  IF \E i \in 1..Len(kept) : ~GroupResolves(searcher, kept[i][2])
        THEN Panic
        ELSE Returned(search_with_dist_collect(searcher, kept, raw))

search_with_dist(searcher, aut, raw, max_dist) ==
    LET kept == KeptByDistance(Map_search(searcher.map, aut), raw, max_dist)
    IN  IF \E i \in 1..Len(kept) : ~GroupResolves(searcher, kept[i][2])
        THEN Panic
        ELSE Returned(sort_results_with_dist(
                 search_with_dist_collect(searcher, kept, raw)))

(***************************************************************************)
(* Attribute filter (routes/mod.rs).                                       *)
(***************************************************************************)
FilterResults(fclass, fcode, cc) ==
    [feature_class |-> fclass, feature_code |-> fcode, country_code |-> cc]

RECURSIVE retain(_, _, _)
retain(results, field, value) ==
    IF results = <<>> THEN <<>>
    ELSE (IF Head(results).entry[field] = value THEN <<Head(results)>> ELSE <<>>)
         \o retain(Tail(results), field, value)

\* filter_results without the test of the country code.
filter_results_country_ignored(results, filter) ==
    IF ~filter.some THEN results
    ELSE LET r1 == IF filter.v.feature_class.some
                   THEN retain(results, "feature_class", filter.v.feature_class.v)
                   ELSE results
         IN  IF filter.v.feature_code.some
             THEN retain(r1, "feature_code", filter.v.feature_code.v)
             ELSE r1

filter_results(results, filter) ==
    IF ~filter.some THEN results
    ELSE LET r1 == IF filter.v.feature_class.some
                   THEN retain(results, "feature_class", filter.v.feature_class.v)
                   ELSE results
             r2 == IF filter.v.feature_code.some
                   THEN retain(r1, "feature_code", filter.v.feature_code.v)
                   ELSE r1
         IN  IF filter.v.country_code.some
             THEN retain(r2, "country_code", filter.v.country_code.v)
             ELSE r2

(***************************************************************************)
(* Levenshtein automaton construction (fst::automaton::Levenshtein).       *)
(* The number of states the construction materialises for a query and a    *)
(* distance is decided inside the library; it reaches the model as         *)
(* `needed`, an input of the request.                                      *)
(***************************************************************************)
DefaultStateLimit == 10000

Levenshtein_new_with_limit(query, distance, state_limit, needed) ==
    IF needed > state_limit THEN Err("TooManyStates")
    ELSE [ok |-> TRUE, automaton |-> Levenshtein(query, distance)]

Levenshtein_new(query, distance, needed) ==
    Levenshtein_new_with_limit(query, distance, DefaultStateLimit, needed)

(***************************************************************************)
(* Route handlers (routes/*.rs).  A response is the status code, the body  *)
(* (Response::Results or Response::Error) and `ops`, the calls made on the *)
(* searcher and the automaton constructors while answering.  A handler     *)
(* that panics sends no response.                                          *)
(***************************************************************************)
Results(status, results, ops) ==
    [panic |-> FALSE, status |-> status, body |-> [results |-> results], ops |-> ops]
Error(status, msg, ops) ==
    [panic |-> FALSE, status |-> status, body |-> [error |-> msg], ops |-> ops]
Panicked(ops) == [panic |-> TRUE, status |-> 0, body |-> [error |-> "panic"], ops |-> ops]

StatusOk == 200
StatusBadRequest == 400
StatusNotAcceptable == 406

\* filter_results applied to what the searcher returned.
Filtered(status, got, filter, ops) ==
    IF got.panic THEN Panicked(ops)
    ELSE Results(status, filter_results(got.results, filter),
                 Append(ops, "filter_results"))

find_route(searcher, request) ==
    IF request.query = <<>> THEN Error(StatusBadRequest, "Empty query", <<>>)
    ELSE Filtered(StatusOk, find(searcher, request.query), request.filter,
                  <<"map.get">>)

\* regex without the test for an empty pattern.
regex_route_no_empty_test(searcher, request) ==
    LET dfa == RegexSearchAutomaton_from_str(request.regex)
    IN  IF dfa.ok
        THEN Filtered(StatusOk, search(searcher, dfa.automaton), request.filter,
                 <<"RegexSearchAutomaton::from_str", "map.search">>)
        ELSE Error(StatusBadRequest, "RegexError",
                 <<"RegexSearchAutomaton::from_str">>)

\* regex answering a pattern that does not compile with an empty result list.
regex_route_invalid_matches_nothing(searcher, request) ==
    IF request.regex = <<>> THEN Error(StatusBadRequest, "Empty query", <<>>)
    ELSE LET dfa == RegexSearchAutomaton_from_str(request.regex)
         IN  IF dfa.ok
             THEN Filtered(StatusOk, search(searcher, dfa.automaton), request.filter,
                      <<"RegexSearchAutomaton::from_str", "map.search">>)
             ELSE Results(StatusOk, <<>>, <<"RegexSearchAutomaton::from_str">>)

regex_route(searcher, request) ==
    IF request.regex = <<>> THEN Error(StatusBadRequest, "Empty query", <<>>)
    ELSE LET dfa == RegexSearchAutomaton_from_str(request.regex)
         IN  IF dfa.ok
             THEN Filtered(StatusOk, search(searcher, dfa.automaton), request.filter,
                      <<"RegexSearchAutomaton::from_str", "map.search">>)
             ELSE Error(StatusBadRequest, "RegexError",
                      <<"RegexSearchAutomaton::from_str">>)

starts_with_route(searcher, request) ==
    IF request.query = <<>> THEN Error(StatusBadRequest, "Empty query", <<>>)
    ELSE Filtered(StatusOk,
             search_with_dist(searcher, StartsWith(request.query), request.query,
                              Some(request.max_dist)),
             request.filter, <<"Str::new", "map.search">>)

fuzzy_route(searcher, request) ==
    IF request.query = <<>> THEN Error(StatusBadRequest, "Empty query", <<>>)
    ELSE Filtered(StatusOk,
             search_with_dist(searcher, Subsequence(request.query), request.query,
                              Some(request.max_dist)),
             request.filter, <<"Subsequence::new", "map.search">>)

\* levenshtein_inner that never hands the caller's state limit on.
levenshtein_inner_limit_dropped(searcher, query, state_limit, max_dist, filter, needed) ==
    LET distance == IF max_dist.some THEN max_dist.v ELSE 1
        levenshtein_query == Levenshtein_new(query, distance, needed)
    IN  IF levenshtein_query.ok
        THEN LET got == search_with_dist(searcher, levenshtein_query.automaton,
                                         query, max_dist)
             IN  IF got.panic THEN [ok |-> TRUE, panic |-> TRUE]
                 ELSE [ok |-> TRUE, panic |-> FALSE,
                       results |-> filter_results(got.results, filter)]
        ELSE levenshtein_query

\* levenshtein_inner: Ok(results) or Err(LevenshteinError).
\* levenshtein_inner with the documented default of 2 for an unset max_dist.
levenshtein_inner_default_two(searcher, query, state_limit, max_dist, filter, needed) ==
    LET distance == IF max_dist.some THEN max_dist.v ELSE 2
        levenshtein_query ==
            IF state_limit.some
            THEN Levenshtein_new_with_limit(query, distance, state_limit.v, needed)
            ELSE Levenshtein_new(query, distance, needed)
    IN  IF levenshtein_query.ok
        THEN LET got == search_with_dist(searcher, levenshtein_query.automaton,
                                         query, max_dist)
             IN  IF got.panic THEN [ok |-> TRUE, panic |-> TRUE]
                 ELSE [ok |-> TRUE, panic |-> FALSE,
                       results |-> filter_results(got.results, filter)]
        ELSE levenshtein_query

levenshtein_inner(searcher, query, state_limit, max_dist, filter, needed) ==
    LET distance == IF max_dist.some THEN max_dist.v ELSE 1
        levenshtein_query ==
            IF state_limit.some
            THEN Levenshtein_new_with_limit(query, distance, state_limit.v, needed)
            ELSE Levenshtein_new(query, distance, needed)
    IN  IF levenshtein_query.ok
        THEN LET got == search_with_dist(searcher, levenshtein_query.automaton,
                                         query, max_dist)
             IN  IF got.panic THEN [ok |-> TRUE, panic |-> TRUE]
                 ELSE [ok |-> TRUE, panic |-> FALSE,
                       results |-> filter_results(got.results, filter)]
        ELSE levenshtein_query

\* levenshtein reporting the construction error as a bad request.
levenshtein_route_bad_request(searcher, request) ==
    IF request.query = <<>> THEN Error(StatusBadRequest, "Empty query", <<>>)
    ELSE LET r == levenshtein_inner(searcher, request.query, request.state_limit,
                                    request.max_dist, request.filter,
                                    request.needed)
         IN  IF ~r.ok
             THEN Error(StatusBadRequest, "LevenshteinError", <<"Levenshtein::new">>)
             ELSE IF r.panic THEN Panicked(<<"Levenshtein::new", "map.search">>)
             ELSE Results(StatusOk, r.results,
                          <<"Levenshtein::new", "map.search", "filter_results">>)

levenshtein_route(searcher, request) ==
    IF request.query = <<>> THEN Error(StatusBadRequest, "Empty query", <<>>)
    ELSE LET r == levenshtein_inner(searcher, request.query, request.state_limit,
                                    request.max_dist, request.filter,
                                    request.needed)
         IN  IF ~r.ok
             THEN Error(StatusNotAcceptable, "LevenshteinError", <<"Levenshtein::new">>)
             ELSE IF r.panic THEN Panicked(<<"Levenshtein::new", "map.search">>)
             ELSE Results(StatusOk, r.results,
                          <<"Levenshtein::new", "map.search", "filter_results">>)

\* geonames_routes: the handler of each endpoint.
route(searcher, request) ==
    CASE request.endpoint = "find" -> find_route(searcher, request)
      [] request.endpoint = "regex" -> regex_route(searcher, request)
      [] request.endpoint = "starts_with" -> starts_with_route(searcher, request)
      [] request.endpoint = "fuzzy" -> fuzzy_route(searcher, request)
      [] request.endpoint = "levenshtein" -> levenshtein_route(searcher, request)

(***************************************************************************)
(* GeoNamesSearcher::build as a whole: the primary files, the alternate    *)
(* files when given, then the index.                                       *)
(***************************************************************************)
\* build reading the primary files only.
build_primary_only(gn_rows, alternate_rows, alternate_languages) ==
    LET primary == parse_geonames_file(gn_rows, <<>>, EmptyMap)
    IN  IF ~primary.ok THEN [status |-> "failed"]
        ELSE LET b == build_index(primary.query_pairs)
             IN  [status |-> IF b.panic THEN "panicked" ELSE "built",
                  query_pairs |-> primary.query_pairs,
                  geonames |-> primary.geonames,
                  search_terms |-> b.search_terms,
                  search_matches |-> b.search_matches,
                  map |-> b.map]

build(gn_rows, alternate_rows, alternate_languages) ==
    LET primary == parse_geonames_file(gn_rows, <<>>, EmptyMap)
    IN  IF ~primary.ok THEN [status |-> "failed"]
        ELSE
          LET alternates ==
                  IF alternate_rows.some
                  THEN parse_alternate_names_file(alternate_rows.v,
                           primary.query_pairs, primary.geonames, alternate_languages)
                  ELSE [ok |-> TRUE, query_pairs |-> primary.query_pairs]
          IN  IF ~alternates.ok THEN [status |-> "failed"]
              ELSE LET b == build_index(alternates.query_pairs)
                   IN  [status |-> IF b.panic THEN "panicked" ELSE "built",
                        query_pairs |-> alternates.query_pairs,
                        geonames |-> primary.geonames,
                        search_terms |-> b.search_terms,
                        search_matches |-> b.search_matches,
                        map |-> b.map]

(***************************************************************************)
(* Inputs of the requests.                                                 *)
(***************************************************************************)
Queries == {<<>>, <<1>>, <<2>>}
Patterns == {<<>>, RegexCaret \o <<1>>, RegexCaret \o <<1>> \o RegexDotStar,
             RegexCaret \o RegexDotStar, RegexOpenGroup \o <<1>>}
MaxDists == {0, 1, 2}
StateLimits == {None, Some(50)}
StatesNeeded == {50, 51, 10000, 10001}
Filters == {None,
            Some(FilterResults(Some("P"), None, Some("DE"))),
            Some(FilterResults(None, Some("PPL"), None))}

\* The files the served index is built from.
CorpusPrimary ==
    { PrimaryRow(19, 1, <<1, 2>>, <<1>>, "P", "PPL", "DE"),
      PrimaryRow(19, 2, <<1, 2, 2>>, <<2>>, "P", "PPL", "FR"),
      PrimaryRow(19, 2, <<1>>, <<1>>, "P", "MT", "DE") }
CorpusAlternate ==
    { AlternateRow(10, 1, "de", <<1>>, "1", "0", "0", "0", "1900", "1950"),
      AlternateRow(10, 2, "fr", <<1, 2, 2>>, "0", "1", "0", "0", "", ""),
      AlternateRow(8, 1, "de", <<2>>, "0", "0", "0", "1", "", "") }

(***************************************************************************)
(* State.                                                                  *)
(***************************************************************************)
VARIABLES
    pc,               \* position of build: "primary", "alternate", "index",
                      \* then "built", "failed" (Err returned) or "panicked"
    alt_paths,        \* gn_alternate_paths is Some
    languages,        \* gn_alternate_languages
    rows_read,        \* rows consumed from the primary / alternate files
    query_pairs,      \* Vec<(String, MatchType)>
    geonames,         \* the Entry Store
    search_terms,     \* unique terms, as handed to the transducer builder
    search_matches,   \* Vec<Vec<MatchType>>
    map,              \* the transducer: (key, ordinal) in key order
    req,              \* the request being answered
    resp,             \* its response
    tasks,            \* the handler running on each worker, when several run
    files             \* the rows of the files handed to build, when the
                      \* model holds whole files (rows are drawn one by one
                      \* as they are read otherwise)

vars == <<pc, alt_paths, languages, rows_read, query_pairs, geonames,
          search_terms, search_matches, map, req, resp, tasks, files>>

index_vars == <<search_terms, search_matches, map>>
config_vars == <<alt_paths, languages, files>>
query_vars == <<req, resp, tasks>>

\* The workers that run handlers, and a worker without one.
Workers == {"w1", "w2"}
NoTask == [stage |-> "idle"]
NoFiles == [held |-> FALSE]

Init ==
    /\ pc = "primary"
    /\ alt_paths \in BOOLEAN
    /\ languages \in LanguageOptions
    /\ rows_read = [primary |-> 0, alternate |-> 0]
    /\ query_pairs = <<>>
    /\ geonames = EmptyMap
    /\ search_terms = <<>>
    /\ search_matches = <<>>
    /\ map = <<>>
    /\ req = None
    /\ resp = None
    /\ tasks = [w \in Workers |-> NoTask]
    /\ files = NoFiles

\* One row of a primary file; an Err ends build (the ? operator).
ParsePrimaryRow ==
    /\ pc = "primary"
    /\ rows_read.primary < MaxPrimaryRows
    /\ \E row \in PrimaryRows :
         LET r == parse_geonames_row(query_pairs, geonames, row)
         IN  IF r.ok
             THEN /\ query_pairs' = r.query_pairs
                  /\ geonames' = r.geonames
                  /\ pc' = pc
             ELSE /\ pc' = "failed"
                  /\ UNCHANGED <<query_pairs, geonames>>
    /\ rows_read' = [rows_read EXCEPT !.primary = @ + 1]
    /\ UNCHANGED <<index_vars, config_vars, query_vars>>

\* The primary files are exhausted.
FinishPrimary ==
    /\ pc = "primary"
    /\ pc' = IF alt_paths THEN "alternate" ELSE "index"
    /\ UNCHANGED <<rows_read, query_pairs, geonames, index_vars, config_vars,
                   query_vars>>

\* One row of an alternate-names file.
ParseAlternateRow ==
    /\ pc = "alternate"
    /\ rows_read.alternate < MaxAlternateRows
    /\ \E row \in AlternateRows :
         LET r == parse_alternate_names_row(query_pairs, geonames, languages, row)
         IN  IF r.ok
             THEN /\ query_pairs' = r.query_pairs
                  /\ pc' = pc
             ELSE /\ pc' = "failed"
                  /\ UNCHANGED query_pairs
    /\ rows_read' = [rows_read EXCEPT !.alternate = @ + 1]
    /\ UNCHANGED <<geonames, index_vars, config_vars, query_vars>>

\* The alternate-names files are exhausted.
FinishAlternate ==
    /\ pc = "alternate"
    /\ pc' = "index"
    /\ UNCHANGED <<rows_read, query_pairs, geonames, index_vars, config_vars,
                   query_vars>>

\* Sort, group, build the transducer, return the searcher.
BuildIndex ==
    /\ pc = "index"
    /\ LET b == build_index(query_pairs)
       IN  /\ search_terms' = b.search_terms
           /\ search_matches' = b.search_matches
           /\ map' = b.map
           /\ pc' = IF b.panic THEN "panicked" ELSE "built"
    /\ UNCHANGED <<rows_read, query_pairs, geonames, config_vars, query_vars>>

Next ==
    \/ ParsePrimaryRow
    \/ FinishPrimary
    \/ ParseAlternateRow
    \/ FinishAlternate
    \/ BuildIndex

Spec == Init /\ [][Next]_vars

(***************************************************************************)
(* Serving: the searcher is built, requests are answered one at a time.    *)
(***************************************************************************)
TheSearcher == Searcher(map, geonames, search_matches)

build_vars == <<pc, alt_paths, languages, rows_read, query_pairs, geonames,
                search_terms, search_matches, map, files>>

InitServing ==
    /\ alt_paths = TRUE
    /\ languages = None
    /\ req = None
    /\ resp = None
    /\ tasks = [w \in Workers |-> NoTask]
    /\ files = NoFiles
    /\ \E gn_rows \in SeqsUpTo(CorpusPrimary, CorpusPrimaryRows),
          alternate_rows \in SeqsUpTo(CorpusAlternate, CorpusAlternateRows) :
         LET b == build(gn_rows, Some(alternate_rows), languages)
         IN  /\ b.status = "built"
             /\ pc = "built"
             /\ rows_read = [primary |-> Len(gn_rows), alternate |-> Len(alternate_rows)]
             /\ query_pairs = b.query_pairs
             /\ geonames = b.geonames
             /\ search_terms = b.search_terms
             /\ search_matches = b.search_matches
             /\ map = b.map

\* Requests accepted whether or not the build has returned.
Idle_before_build == ~req.some

\* main serves only once the build has returned Ok (the ? on its result
\* ends main otherwise), and one request is answered at a time here.
Idle == pc = "built" /\ ~req.some

Find ==
    /\ Idle
    /\ \E q \in Queries, f \in Filters :
         LET request == [endpoint |-> "find", query |-> q, filter |-> f]
         IN  /\ req' = Some(request)
             /\ resp' = Some(route(TheSearcher, request))
    /\ UNCHANGED <<build_vars, tasks>>

Regex ==
    /\ Idle
    /\ \E re \in Patterns, f \in Filters :
         LET request == [endpoint |-> "regex", regex |-> re, filter |-> f]
         IN  /\ req' = Some(request)
             /\ resp' = Some(route(TheSearcher, request))
    /\ UNCHANGED <<build_vars, tasks>>

StartsWithRoute ==
    /\ Idle
    /\ \E q \in Queries, d \in MaxDists, f \in Filters :
         LET request == [endpoint |-> "starts_with", query |-> q, max_dist |-> d,
                         filter |-> f]
         IN  /\ req' = Some(request)
             /\ resp' = Some(route(TheSearcher, request))
    /\ UNCHANGED <<build_vars, tasks>>

FuzzyRoute ==
    /\ Idle
    /\ \E q \in Queries, d \in MaxDists, f \in Filters :
         LET request == [endpoint |-> "fuzzy", query |-> q, max_dist |-> d,
                         filter |-> f]
         IN  /\ req' = Some(request)
             /\ resp' = Some(route(TheSearcher, request))
    /\ UNCHANGED <<build_vars, tasks>>

LevenshteinRoute ==
    /\ Idle
    /\ \E q \in Queries, d \in {None} \cup {Some(x) : x \in MaxDists},
          l \in StateLimits, n \in StatesNeeded, f \in Filters :
         LET request == [endpoint |-> "levenshtein", query |-> q, max_dist |-> d,
                         state_limit |-> l, needed |-> n, filter |-> f]
         IN  /\ req' = Some(request)
             /\ resp' = Some(route(TheSearcher, request))
    /\ UNCHANGED <<build_vars, tasks>>

\* The response is sent; the next request can be taken.
Reply ==
    /\ pc = "built"
    /\ req.some
    /\ req' = None
    /\ resp' = None
    /\ UNCHANGED <<build_vars, tasks>>

NextServing ==
    \/ Find
    \/ Regex
    \/ StartsWithRoute
    \/ FuzzyRoute
    \/ LevenshteinRoute
    \/ Reply

SpecServing == InitServing /\ [][NextServing]_vars

(***************************************************************************)
(* Startup: main builds the searcher, then serves.                         *)
(***************************************************************************)
\* One request of each entry point.
StartupRequests ==
    { [endpoint |-> "find", query |-> <<1>>, filter |-> None],
      [endpoint |-> "regex", regex |-> RegexCaret \o RegexDotStar, filter |-> None],
      [endpoint |-> "starts_with", query |-> <<1>>, max_dist |-> 0, filter |-> None],
      [endpoint |-> "fuzzy", query |-> <<2>>, max_dist |-> 1, filter |-> None],
      [endpoint |-> "levenshtein", query |-> <<1>>, max_dist |-> Some(1),
       state_limit |-> None, needed |-> 50, filter |-> None] }

\* axum::serve hands a request to its handler.
Handle ==
    /\ Idle
    /\ \E request \in StartupRequests :
         /\ req' = Some(request)
         /\ resp' = Some(route(TheSearcher, request))
    /\ UNCHANGED <<build_vars, tasks>>

NextStartup ==
    \/ Next
    \/ Handle
    \/ Reply

SpecStartup == Init /\ [][NextStartup]_vars

(***************************************************************************)
(* Concurrent serving: each worker runs one handler; a handler reads the   *)
(* shared searcher (&self) key by key and keeps its results in a Vec of    *)
(* its own.  A task is (stage, request, cursor, results); the cursor is    *)
(* the position of its stream in the transducer.                           *)
(***************************************************************************)
ConcurrentRequests ==
    { [endpoint |-> "find", query |-> <<1>>,
       filter |-> Some(FilterResults(None, Some("PPL"), None))],
      [endpoint |-> "regex", regex |-> RegexCaret \o RegexDotStar,
       filter |-> Some(FilterResults(Some("P"), None, Some("DE")))],
      [endpoint |-> "starts_with", query |-> <<1>>, max_dist |-> 1, filter |-> None] }

TaskAutomaton(r) ==
    CASE r.endpoint = "regex" -> RegexSearchAutomaton_from_str(r.regex).automaton
      [] r.endpoint = "starts_with" -> StartsWith(r.query)

\* The results one iteration of the stream loop pushes for `entry`, the
\* (key, ordinal) under the cursor.
Visit(searcher, r, entry) ==
    IF ~Accepts(TaskAutomaton(r), entry[1]) THEN <<>>
    ELSE IF r.endpoint = "regex" THEN search_collect(searcher, <<entry>>)
    ELSE search_with_dist_collect(searcher,
             KeptByDistance(<<entry>>, r.query, Some(r.max_dist)), r.query)

\* A handler starts on a worker.
Accept(w) ==
    /\ pc = "built"
    /\ tasks[w].stage = "idle"
    /\ \E request \in ConcurrentRequests :
         tasks' = [tasks EXCEPT ![w] =
                     [stage |-> "search", request |-> request, cursor |-> 1,
                      results |-> <<>>]]
    /\ UNCHANGED <<build_vars, req, resp>>

\* The stream loop moving each provenance out of the shared group it reads.
SearchStep_consuming(w) ==
    /\ tasks[w].stage = "search"
    /\ tasks[w].request.endpoint # "find"
    /\ tasks[w].cursor <= Len(map)
    /\ LET t == tasks[w]
           entry == map[t.cursor]
           pushed == Visit(TheSearcher, t.request, entry)
       IN  /\ tasks' = [tasks EXCEPT ![w].results = t.results \o pushed,
                                     ![w].cursor = t.cursor + 1]
           /\ search_matches' =
                IF pushed = <<>> THEN search_matches
                ELSE [search_matches EXCEPT ![entry[2] + 1] = Tail(@)]
    /\ UNCHANGED <<pc, alt_paths, languages, rows_read, query_pairs, geonames,
                   search_terms, map, req, resp, files>>

\* One iteration of the stream loop of search / search_with_dist.
SearchStep(w) ==
    /\ tasks[w].stage = "search"
    /\ tasks[w].request.endpoint # "find"
    /\ tasks[w].cursor <= Len(map)
    /\ LET t == tasks[w]
           pushed == Visit(TheSearcher, t.request, map[t.cursor])
       IN  tasks' = [tasks EXCEPT ![w].results = t.results \o pushed,
                                  ![w].cursor = t.cursor + 1]
    /\ UNCHANGED <<build_vars, req, resp>>

\* find: one lookup, the group expanded; nothing to sort.
FindStep(w) ==
    /\ tasks[w].stage = "search"
    /\ tasks[w].request.endpoint = "find"
    /\ tasks' = [tasks EXCEPT
                   ![w].results = find(TheSearcher, tasks[w].request.query).results,
                   ![w].stage = "filter"]
    /\ UNCHANGED <<build_vars, req, resp>>

\* The stream is exhausted: results.sort().
SortStep(w) ==
    /\ tasks[w].stage = "search"
    /\ tasks[w].request.endpoint # "find"
    /\ tasks[w].cursor > Len(map)
    /\ tasks' = [tasks EXCEPT
                   ![w].results = IF tasks[w].request.endpoint = "regex"
                                  THEN sort_results(@)
                                  ELSE sort_results_with_dist(@),
                   ![w].stage = "filter"]
    /\ UNCHANGED <<build_vars, req, resp>>

\* filter_results on the handler's list.
FilterStep(w) ==
    /\ tasks[w].stage = "filter"
    /\ tasks' = [tasks EXCEPT
                   ![w].results = filter_results(@, tasks[w].request.filter),
                   ![w].stage = "done"]
    /\ UNCHANGED <<build_vars, req, resp>>

\* The response is sent and the worker is free.
Respond(w) ==
    /\ tasks[w].stage = "done"
    /\ tasks' = [tasks EXCEPT ![w] = NoTask]
    /\ UNCHANGED <<build_vars, req, resp>>

NextConcurrent ==
    \E w \in Workers :
      \/ Accept(w)
      \/ SearchStep(w)
      \/ FindStep(w)
      \/ SortStep(w)
      \/ FilterStep(w)
      \/ Respond(w)

\* The searchers of the corpora of full length.
InitConcurrent ==
    /\ InitServing
    /\ rows_read = [primary |-> CorpusPrimaryRows, alternate |-> CorpusAlternateRows]

SpecConcurrent == InitConcurrent /\ [][NextConcurrent]_vars

(***************************************************************************)
(* The worked examples: build reads whole files of named places, then the  *)
(* searcher answers.  Names are written as their ASCII codes.              *)
(***************************************************************************)
Frankfurt == <<70, 114, 97, 110, 107, 102, 117, 114, 116>>
Frankfort == <<70, 114, 97, 110, 107, 102, 111, 114, 116>>
FrankfurtAmMain == Frankfurt \o <<32, 97, 109, 32, 77, 97, 105, 110>>
Frnkfrt == <<70, 114, 110, 107, 102, 114, 116>>

FrankfurtRow == PrimaryRow(19, 1, Frankfurt, Frankfurt, "P", "PPL", "DE")
FrankfortRow == PrimaryRow(19, 2, Frankfurt, Frankfort, "P", "PPL", "US")
FrankfurtAmMainRow ==
    AlternateRow(10, 1, "de", FrankfurtAmMain, "1", "0", "0", "0", "", "")

ExamplePrimaryFiles ==
    { <<>>, <<FrankfurtRow>>, <<FrankfortRow>>, <<FrankfurtRow, FrankfortRow>> }
ExampleAlternateFiles ==
    { <<>>,
      <<FrankfurtAmMainRow>>,
      <<AlternateRow(10, 1, "de", FrankfurtAmMain, "0", "1", "0", "0", "", "")>>,
      <<AlternateRow(10, 1, "en", Frankfort, "1", "0", "0", "0", "", ""),
        FrankfurtAmMainRow>> }

Files(gn_rows, alternate_rows) ==
    [held |-> TRUE, primary |-> gn_rows, alternate |-> alternate_rows]

ExampleRequests ==
    { [endpoint |-> "find", query |-> Frankfurt, filter |-> None] }
    \cup
    { [endpoint |-> e, query |-> q, max_dist |-> d, filter |-> None] :
        e \in {"fuzzy", "starts_with"}, q \in {Frnkfrt, SubSeq(Frankfurt, 1, 5), Frankfort},
        d \in {0, 2} }
    \cup
    { [endpoint |-> "levenshtein", query |-> Frankfort, max_dist |-> Some(1),
       state_limit |-> None, needed |-> 50, filter |-> None] }

InitExample ==
    /\ pc = "primary"
    /\ alt_paths = TRUE
    /\ languages \in LanguageOptions
    /\ rows_read = [primary |-> 0, alternate |-> 0]
    /\ query_pairs = <<>>
    /\ geonames = EmptyMap
    /\ search_terms = <<>>
    /\ search_matches = <<>>
    /\ map = <<>>
    /\ req = None
    /\ resp = None
    /\ tasks = [w \in Workers |-> NoTask]
    /\ \E gn_rows \in ExamplePrimaryFiles, alternate_rows \in ExampleAlternateFiles :
         files = Files(gn_rows, alternate_rows)

\* GeoNamesSearcher::build from its call to its return.
BuildFiles ==
    /\ pc = "primary"
    /\ files.held
    /\ LET b == build(files.primary, Some(files.alternate), languages)
       IN  /\ pc' = b.status
           /\ rows_read' = [primary |-> Len(files.primary),
                            alternate |-> Len(files.alternate)]
           /\ IF b.status = "failed"
              THEN UNCHANGED <<query_pairs, geonames, index_vars>>
              ELSE /\ query_pairs' = b.query_pairs
                   /\ geonames' = b.geonames
                   /\ search_terms' = b.search_terms
                   /\ search_matches' = b.search_matches
                   /\ map' = b.map
    /\ UNCHANGED <<config_vars, query_vars>>

\* A request of the examples is answered.
AnswerExample ==
    /\ Idle
    /\ \E request \in ExampleRequests :
         /\ req' = Some(request)
         /\ resp' = Some(route(TheSearcher, request))
    /\ UNCHANGED <<build_vars, tasks>>

NextExample ==
    \/ BuildFiles
    \/ AnswerExample
    \/ Reply

SpecExample == InitExample /\ [][NextExample]_vars

(***************************************************************************)
(* Batch processing (duui/process.rs): one request annotates a list of     *)
(* entities, each searched for in the mode the request names.              *)
(***************************************************************************)
\* An entity; needed is the number of states a Levenshtein automaton of its
\* text takes.
Entity(reference, text, needed) ==
    [reference |-> reference, text |-> text, needed |-> needed]

AnnotatedEntity_annotate(entity, annotation) ==
    [reference |-> entity.reference, annotation |-> annotation]

\* From<GeoNamesSearchResult> for GeoNamesSearchResultWithDist, and the
\* identity on a result that has a distance.
Into(result) ==
    IF "distance" \in DOMAIN result THEN result
    ELSE [key |-> result.key, entry |-> result.entry, distance |-> 0]

\* ResultSelection::apply taking the last item for First.
ResultSelection_apply_last(selection, entity, items) ==
    IF selection = "first"
    THEN (IF items = <<>> THEN None
          ELSE Some(<<AnnotatedEntity_annotate(entity, Into(Last(items)))>>))
    ELSE Some([i \in 1..Len(items) |-> AnnotatedEntity_annotate(entity, Into(items[i]))])

ResultSelection_apply(selection, entity, items) ==
    IF selection = "first"
    THEN (IF items = <<>> THEN None
          ELSE Some(<<AnnotatedEntity_annotate(entity, Into(Head(items)))>>))
    ELSE Some([i \in 1..Len(items) |-> AnnotatedEntity_annotate(entity, Into(items[i]))])

\* filter_map(..).flatten().collect(): the annotations of the entity in
\* front, then those of the entities after it.
Collected(applied, rest) ==
    IF rest.panic THEN Panic
    ELSE Returned((IF applied.some THEN applied.v ELSE <<>>) \o rest.results)

RECURSIVE process_find(_, _, _, _)
process_find(searcher, queries, options, return_type) ==
    IF queries = <<>> THEN Returned(<<>>)
    ELSE LET entity == Head(queries)
             got == find(searcher, entity.text)
         IN  IF got.panic THEN Panic
             ELSE Collected(
                      ResultSelection_apply(return_type, entity,
                          filter_results(got.results, options.filter)),
                      process_find(searcher, Tail(queries), options, return_type))

RECURSIVE process_starts_with(_, _, _, _)
process_starts_with(searcher, queries, options, return_type) ==
    IF queries = <<>> THEN Returned(<<>>)
    ELSE LET entity == Head(queries)
             got == search_with_dist(searcher, StartsWith(entity.text), entity.text,
                                     Some(options.max_dist))
         IN  IF got.panic THEN Panic
             ELSE Collected(
                      ResultSelection_apply(return_type, entity,
                          filter_results(got.results, options.filter)),
                      process_starts_with(searcher, Tail(queries), options, return_type))

RECURSIVE process_fuzzy(_, _, _, _)
process_fuzzy(searcher, queries, options, return_type) ==
    IF queries = <<>> THEN Returned(<<>>)
    ELSE LET entity == Head(queries)
             got == search_with_dist(searcher, Subsequence(entity.text), entity.text,
                                     Some(options.max_dist))
         IN  IF got.panic THEN Panic
             ELSE Collected(
                      ResultSelection_apply(return_type, entity,
                          filter_results(got.results, options.filter)),
                      process_fuzzy(searcher, Tail(queries), options, return_type))

\* process_levenshtein answering nothing once an automaton is refused.
RECURSIVE process_levenshtein_stopping(_, _, _, _)
process_levenshtein_stopping(searcher, queries, options, return_type) ==
    IF queries = <<>> THEN Returned(<<>>)
    ELSE LET entity == Head(queries)
             r == levenshtein_inner(searcher, entity.text, options.state_limit,
                                    options.max_dist, options.filter, entity.needed)
         IN  IF ~r.ok THEN Returned(<<>>)
             ELSE IF r.panic THEN Panic
             ELSE Collected(
                      ResultSelection_apply(return_type, entity, r.results),
                      process_levenshtein_stopping(searcher, Tail(queries), options,
                                                   return_type))

\* .ok() turns the refusal of an automaton into None, which filter_map drops.
RECURSIVE process_levenshtein(_, _, _, _)
process_levenshtein(searcher, queries, options, return_type) ==
    IF queries = <<>> THEN Returned(<<>>)
    ELSE LET entity == Head(queries)
             r == levenshtein_inner(searcher, entity.text, options.state_limit,
                                    options.max_dist, options.filter, entity.needed)
         IN  IF r.ok /\ r.panic THEN Panic
             ELSE Collected(
                      IF r.ok THEN ResultSelection_apply(return_type, entity, r.results)
                      ELSE None,
                      process_levenshtein(searcher, Tail(queries), options, return_type))

v1_process(searcher, request) ==
    LET results ==
            CASE request.options.mode = "find" ->
                   process_find(searcher, request.queries, request.options,
                                request.result_selection)
              [] request.options.mode = "starts_with" ->
                   process_starts_with(searcher, request.queries, request.options,
                                       request.result_selection)
              [] request.options.mode = "fuzzy" ->
                   process_fuzzy(searcher, request.queries, request.options,
                                 request.result_selection)
              [] request.options.mode = "levenshtein" ->
                   process_levenshtein(searcher, request.queries, request.options,
                                       request.result_selection)
    IN  IF results.panic THEN Panicked(<<>>)
        ELSE Results(StatusOk, results.results, <<>>)

\* The entities of a request, the search modes with their options, and the
\* requests made of them: every list of different entities.
Entities ==
    { Entity(1, <<1>>, 50), Entity(2, <<2>>, 50), Entity(3, <<1>>, 10001) }
SearchModes ==
    { [mode |-> "find", filter |-> f] :
        f \in {None, Some(FilterResults(None, Some("PPL"), None))} }
    \cup
    { [mode |-> m, max_dist |-> d, filter |-> None] :
        m \in {"starts_with", "fuzzy"}, d \in {0, 1} }
    \cup
    { [mode |-> "levenshtein", max_dist |-> d, state_limit |-> l, filter |-> None] :
        d \in {None, Some(1)}, l \in StateLimits }
ProcessRequests ==
    { [endpoint |-> "process", queries |-> q, result_selection |-> s, options |-> o] :
        q \in { l \in UNION { [1..n -> Entities] : n \in 0..Cardinality(Entities) } :
                   \A i, j \in DOMAIN l : i # j => l[i] # l[j] },
        s \in {"first", "all"},
        o \in SearchModes }

V1Process ==
    /\ Idle
    /\ \E request \in ProcessRequests :
         /\ req' = Some(request)
         /\ resp' = Some(v1_process(TheSearcher, request))
    /\ UNCHANGED <<build_vars, tasks>>

NextBatch ==
    \/ V1Process
    \/ Reply

SpecBatch == InitServing /\ [][NextBatch]_vars

(***************************************************************************)
(* Properties of the built index.                                          *)
(***************************************************************************)
Built == pc = "built"

\* The provenances of the ingested pairs whose term is `term`, in order.
RECURSIVE ProvenancesOf(_, _)
ProvenancesOf(pairs, term) ==
    IF pairs = <<>> THEN <<>>
    ELSE (IF Head(pairs)[1] = term THEN <<Head(pairs)[2]>> ELSE <<>>)
         \o ProvenancesOf(Tail(pairs), term)

Occurrences(seq, x) == Cardinality({i \in 1..Len(seq) : seq[i] = x})

\* The two lists hold the same elements the same number of times.
SameElements(s, t) ==
    /\ Len(s) = Len(t)
    /\ \A i \in 1..Len(s) : Occurrences(s, s[i]) = Occurrences(t, s[i])

\* C1: after a successful build the unique terms are strictly ascending
\* bytewise, none is empty, there is one group per term, the transducer maps
\* the i-th term to ordinal i, group i holds exactly the provenances of the
\* ingested pairs with that term (and every non-empty ingested term is a
\* key); no insertion into the transducer builder is refused.
C1_IndexWellFormed ==
    /\ pc # "panicked"
    /\ Built =>
         /\ \A i \in 1..(Len(search_terms) - 1) :
              StrLess(search_terms[i], search_terms[i + 1])
         /\ \A i \in 1..Len(search_terms) : search_terms[i] # <<>>
         /\ Len(search_matches) = Len(search_terms)
         /\ Len(map) = Len(search_terms)
         /\ \A i \in 1..Len(search_terms) :
              /\ map[i] = <<search_terms[i], i - 1>>
              /\ SameElements(search_matches[i],
                              ProvenancesOf(query_pairs, search_terms[i]))
         /\ \A k \in 1..Len(query_pairs) :
              query_pairs[k][1] # <<>> =>
                \E i \in 1..Len(search_terms) : search_terms[i] = query_pairs[k][1]

\* A build whose pairs arrive out of order, with an empty term and with a
\* term shared by two pairs.
C1_Witness ==
    /\ Built
    /\ Len(search_terms) >= 2
    /\ \E i \in 1..Len(search_matches) : Len(search_matches[i]) >= 2
    /\ \E k \in 1..Len(query_pairs) : query_pairs[k][1] = <<>>
    /\ \E k \in 1..(Len(query_pairs) - 1) :
         StrLess(query_pairs[k + 1][1], query_pairs[k][1])

\* C2: in every built index every group is non-empty and every provenance
\* carries an identifier of the Entry Store, so find, search and
\* search_with_dist index no group out of range and unwrap no missing record.
C2_GroupsResolve ==
    Built =>
      /\ \A i \in 1..Len(search_matches) :
           /\ Len(search_matches[i]) >= 1
           /\ \A j \in 1..Len(search_matches[i]) :
                MatchType_id(search_matches[i][j]) \in DOMAIN geonames
      /\ \A q \in Queries :
           /\ ~find(TheSearcher, q).panic
           /\ ~search(TheSearcher, [kind |-> "Regex", query |-> q, open |-> TRUE]).panic
           /\ ~search_with_dist(TheSearcher, StartsWith(q), q, Some(0)).panic
           /\ ~search_with_dist(TheSearcher, Subsequence(q), q, Some(0)).panic
           /\ ~search_with_dist(TheSearcher, Levenshtein(q, 2), q, None).panic

\* A built index with a group of several provenances, one of them from an
\* alternate-names row.
C2_Witness ==
    /\ Built
    /\ rows_read.alternate >= 1
    /\ \E i \in 1..Len(search_matches) :
         /\ Len(search_matches[i]) >= 2
         /\ \E j \in 1..Len(search_matches[i]) :
              MatchType_ord(search_matches[i][j]) >= 2

(***************************************************************************)
(* Properties of the answers.                                              *)
(***************************************************************************)
Answered(endpoint) == req.some /\ req.v.endpoint = endpoint
AnsweredOk(endpoint) == Answered(endpoint) /\ ~resp.v.panic /\ resp.v.status = 200
Unfiltered == ~req.v.filter.some
Answer == resp.v.body.results

Rank(result) == MatchType_ord(result.key.typ)
Ident(result) == MatchType_id(result.key.typ)

\* C3: find returns, for a term that is an index key, one result per
\* provenance of the term's group, in the group's order, each with the Entry
\* Store record of the provenance's identifier; for any other term the
\* empty list.
C3_FindExpandsGroup ==
    (Answered("find") /\ req.v.query # <<>> /\ Unfiltered) =>
      /\ ~resp.v.panic
      /\ resp.v.status = 200
      /\ IF \E i \in 1..Len(search_terms) : search_terms[i] = req.v.query
         THEN LET i == CHOOSE i \in 1..Len(search_terms) : search_terms[i] = req.v.query
              IN  /\ Len(Answer) = Len(search_matches[i])
                  /\ \A j \in 1..Len(Answer) :
                       /\ Answer[j].key.typ = search_matches[i][j]
                       /\ Answer[j].key.name = req.v.query
                       /\ Answer[j].entry = geonames[MatchType_id(search_matches[i][j])]
         ELSE Answer = <<>>

\* find answered for a key whose group holds several provenances.
C3_Witness ==
    /\ Answered("find")
    /\ Unfiltered
    /\ resp.v.status = 200
    /\ Len(Answer) >= 2
    /\ Ident(Answer[1]) # Ident(Answer[2])

\* C4: the list returned by search is in ascending order of provenance rank
\* and, among equal ranks, of record identifier: no adjacent pair is out of
\* that order.
C4_SearchSorted ==
    (AnsweredOk("regex") /\ Unfiltered) =>
      \A i \in 1..(Len(Answer) - 1) :
        \/ Rank(Answer[i]) < Rank(Answer[i + 1])
        \/ /\ Rank(Answer[i]) = Rank(Answer[i + 1])
           /\ Ident(Answer[i]) <= Ident(Answer[i + 1])

\* A regex answer over several keys whose order is not the traversal order,
\* with two results of one rank and a result of another rank.
C4_Witness ==
    /\ AnsweredOk("regex")
    /\ Unfiltered
    /\ Len(Answer) >= 3
    /\ Answer # search_collect(TheSearcher,
                   Map_search(map, RegexSearchAutomaton_from_str(req.v.regex).automaton))
    /\ \E i, j \in 1..Len(Answer) :
         /\ Rank(Answer[i]) = Rank(Answer[j])
         /\ Ident(Answer[i]) < Ident(Answer[j])
    /\ \E i, j \in 1..Len(Answer) : Rank(Answer[i]) < Rank(Answer[j])

\* The automaton, the raw query and the max_dist a distance endpoint hands
\* to search_with_dist.
DistanceEndpoints == {"starts_with", "fuzzy", "levenshtein"}
AnsweredWithDist == req.some /\ req.v.endpoint \in DistanceEndpoints
                       /\ ~resp.v.panic /\ resp.v.status = 200
GivenMaxDist(r) == IF r.endpoint = "levenshtein" THEN r.max_dist ELSE Some(r.max_dist)
GivenAutomaton(r) ==
    CASE r.endpoint = "starts_with" -> StartsWith(r.query)
      [] r.endpoint = "fuzzy" -> Subsequence(r.query)
      [] r.endpoint = "levenshtein" ->
           Levenshtein(r.query, IF r.max_dist.some THEN r.max_dist.v ELSE 1)
Contributes(key) == \E i \in 1..Len(Answer) : Answer[i].key.name = key

\* C5: in search_with_dist, with max_dist supplied and nonzero a key the
\* automaton accepts contributes results iff its edit distance to the raw
\* query is <= max_dist; with max_dist absent or zero every accepted key
\* contributes; a key the automaton rejects contributes nothing.
C5_DistanceFilter ==
    (AnsweredWithDist /\ Unfiltered) =>
      \A i \in 1..Len(map) :
        LET key == map[i][1]
            max_dist == GivenMaxDist(req.v)
        IN  IF Accepts(GivenAutomaton(req.v), key)
            THEN Contributes(key) <=>
                   \/ ~max_dist.some
                   \/ max_dist.v = 0
                   \/ levenshtein_dist(req.v.query, key) <= max_dist.v
            ELSE ~Contributes(key)

\* A prefix search with a nonzero max_dist that keeps one accepted key and
\* drops another.
C5_Witness ==
    /\ AnsweredWithDist
    /\ Unfiltered
    /\ req.v.endpoint = "starts_with"
    /\ req.v.max_dist > 0
    /\ \E i, j \in 1..Len(map) :
         /\ Accepts(GivenAutomaton(req.v), map[i][1]) /\ Contributes(map[i][1])
         /\ Accepts(GivenAutomaton(req.v), map[j][1]) /\ ~Contributes(map[j][1])

\* C6: the list returned by search_with_dist is in ascending order of
\* distance, then of provenance rank, then of record identifier.
C6_SearchWithDistSorted ==
    (AnsweredWithDist /\ Unfiltered) =>
      \A i \in 1..(Len(Answer) - 1) :
        \/ Answer[i].distance < Answer[i + 1].distance
        \/ /\ Answer[i].distance = Answer[i + 1].distance
           /\ \/ Rank(Answer[i]) < Rank(Answer[i + 1])
              \/ /\ Rank(Answer[i]) = Rank(Answer[i + 1])
                 /\ Ident(Answer[i]) <= Ident(Answer[i + 1])

\* An answer in which a result of smaller distance and larger rank precedes
\* one of larger distance and smaller rank.
C6_Witness ==
    /\ AnsweredWithDist
    /\ Unfiltered
    /\ \E i \in 1..(Len(Answer) - 1) :
         /\ Answer[i].distance < Answer[i + 1].distance
         /\ Rank(Answer[i]) > Rank(Answer[i + 1])

\* The request with another max_dist, and the set of results of an answer.
RequestedDist(r) == IF r.endpoint = "levenshtein" THEN r.max_dist.v ELSE r.max_dist
WithMaxDist(r, d) ==
    [r EXCEPT !.max_dist = IF r.endpoint = "levenshtein" THEN Some(d) ELSE d]
ResultSet(response) ==
    {response.body.results[i] : i \in 1..Len(response.body.results)}
AnsweredForDistance == AnsweredWithDist /\ GivenMaxDist(req.v).some

\* The answer is within the answer to the same request at every larger
\* max_dist that is answered with a list.
WithinLargerDistances ==
    \A d2 \in MaxDists :
      d2 > RequestedDist(req.v) =>
        LET larger == route(TheSearcher, WithMaxDist(req.v, d2))
        IN  larger.status = 200 => ResultSet(resp.v) \subseteq ResultSet(larger)

\* C7 as stated: for every query and every d < d' the result set for d is a
\* subset of the result set for d' (starts-with, subsequence, Levenshtein).
C7_MonotoneFromZero == AnsweredForDistance => WithinLargerDistances

\* C7 amended: the same for 1 <= d < d' in starts-with and subsequence
\* search, where a max_dist of 0 switches the distance filter off, and for
\* 0 <= d < d' in Levenshtein search.
C7_MonotoneWhereFiltering ==
    (AnsweredForDistance
       /\ (req.v.endpoint = "levenshtein" \/ RequestedDist(req.v) >= 1))
      => WithinLargerDistances

\* A filtering answer that is non-empty and strictly within the answer at a
\* larger max_dist.
C7_Witness ==
    /\ AnsweredForDistance
    /\ req.v.endpoint = "fuzzy"
    /\ RequestedDist(req.v) = 1
    /\ ResultSet(resp.v) # {}
    /\ ResultSet(resp.v) # ResultSet(route(TheSearcher, WithMaxDist(req.v, 2)))

QueryText(r) == IF r.endpoint = "regex" THEN r.regex ELSE r.query

\* C8: each of find, regex, starts_with, fuzzy and levenshtein answers an
\* empty query with 400 "Empty query", having made no lookup or traversal
\* of the transducer and constructed no automaton.
C8_EmptyQueryRejected ==
    (req.some /\ QueryText(req.v) = <<>>) =>
      /\ ~resp.v.panic
      /\ resp.v.status = 400
      /\ resp.v.body = [error |-> "Empty query"]
      /\ resp.v.ops = <<>>

\* An empty query sent to levenshtein with a state limit that the
\* construction would exceed.
C8_Witness ==
    /\ Answered("levenshtein")
    /\ req.v.query = <<>>
    /\ req.v.state_limit.some
    /\ req.v.needed > req.v.state_limit.v
    /\ resp.v.status = 400

EffectiveLimit(r) == IF r.state_limit.some THEN r.state_limit.v ELSE 10000

\* C9: with the caller's state limit, else 10,000, levenshtein answers with
\* the limit-exceeded error and no result list when the states required
\* exceed the limit, and with a result list when they do not.
C9_StateLimit ==
    (Answered("levenshtein") /\ req.v.query # <<>>) =>
      /\ ~resp.v.panic
      /\ IF req.v.needed > EffectiveLimit(req.v)
         THEN /\ resp.v.status = 406
              /\ DOMAIN resp.v.body = {"error"}
              /\ resp.v.body.error = "LevenshteinError"
              /\ "map.search" \notin {resp.v.ops[i] : i \in 1..Len(resp.v.ops)}
         ELSE /\ resp.v.status = 200
              /\ DOMAIN resp.v.body = {"results"}

\* The default limit exceeded by one state, and a caller's limit exceeded.
C9_Witness ==
    /\ Answered("levenshtein")
    /\ req.v.query # <<>>
    /\ ~req.v.state_limit.some
    /\ req.v.needed = 10001
    /\ resp.v.status = 406

\* C10: levenshtein reports the limit-exceeded error with status 406, the
\* empty query and the invalid regex are reported with 400, and 406 is the
\* status of no other answer.
C10_LimitErrorDistinct ==
    req.some =>
      /\ ("error" \in DOMAIN resp.v.body /\ resp.v.body.error = "LevenshteinError")
           => resp.v.status = 406
      /\ ("error" \in DOMAIN resp.v.body
            /\ resp.v.body.error \in {"Empty query", "RegexError"})
           => resp.v.status = 400
      /\ resp.v.status = 406 =>
           /\ req.v.endpoint = "levenshtein"
           /\ req.v.query # <<>>
           /\ req.v.needed > EffectiveLimit(req.v)

\* The limit exceeded on a non-empty query: 406.
C10_Witness ==
    /\ Answered("levenshtein")
    /\ req.v.query # <<>>
    /\ req.v.state_limit.some
    /\ req.v.needed > req.v.state_limit.v
    /\ resp.v.status = 406
    /\ resp.v.body.error = "LevenshteinError"

(***************************************************************************)
(* Properties of the attribute filter.                                     *)
(***************************************************************************)
FilterFields == {"feature_class", "feature_code", "country_code"}
FeatureClasses == {None, Some("P"), Some("T")}
FeatureCodes == {None, Some("PPL"), Some("MT")}
CountryCodes == {None, Some("DE"), Some("FR")}
AttributeFilters ==
    {None} \cup {Some(FilterResults(fclass, fcode, cc)) :
                   fclass \in FeatureClasses, fcode \in FeatureCodes,
                   cc \in CountryCodes}

\* The record equals every attribute the filter specifies.
MatchesFilter(entry, filter) ==
    filter.some =>
      \A field \in FilterFields :
        filter.v[field].some => entry[field] = filter.v[field].v

\* The sub-list of the results whose record matches, in the list's order.
Matching(results, filter) ==
    SelectSeq(results, LAMBDA r : MatchesFilter(r.entry, filter))

\* The three attribute tests applied in the order given.
RECURSIVE RetainInOrder(_, _, _)
RetainInOrder(results, filter, order) ==
    IF order = <<>> THEN results
    ELSE RetainInOrder(
           IF filter.v[Head(order)].some
           THEN retain(results, Head(order), filter.v[Head(order)].v)
           ELSE results,
           filter, Tail(order))

FieldOrders ==
    {order \in [1..3 -> FilterFields] : \A i, j \in 1..3 : i # j => order[i] # order[j]}

\* What the searcher returned for the request, before filter_results.
Unfiltering(r) == [r EXCEPT !.filter = None]
RankedList == route(TheSearcher, Unfiltering(req.v)).body.results

AnsweredWithList == req.some /\ ~resp.v.panic /\ resp.v.status = 200

\* C11: filter_results returns the sub-list of its input, in the input's
\* order, of the results whose record equals every specified attribute among
\* feature_class, feature_code and country_code; an unspecified attribute or
\* an absent filter constrains nothing; the three tests applied in any order
\* give the same list.
C11_FilterResults ==
    AnsweredWithList =>
      LET ranked == RankedList
      IN  /\ Answer = Matching(ranked, req.v.filter)
          /\ Unfiltered => \A f \in AttributeFilters :
               LET filtered == filter_results(ranked, f)
               IN  /\ filtered = Matching(ranked, f)
                   /\ f.some => \A order \in FieldOrders :
                                  RetainInOrder(ranked, f, order) = filtered

\* An answer filtered on two attributes that keeps some results and drops
\* others, one of them for its country code alone.
C11_Witness ==
    /\ AnsweredWithList
    /\ req.v.filter.some
    /\ req.v.filter.v.feature_class.some
    /\ req.v.filter.v.country_code.some
    /\ Len(Answer) >= 1
    /\ LET ranked == RankedList
       IN  /\ Len(Answer) < Len(ranked)
           /\ \E i \in 1..Len(ranked) :
                /\ ranked[i].entry.feature_class = req.v.filter.v.feature_class.v
                /\ ranked[i].entry.country_code # req.v.filter.v.country_code.v

\* The matches of a request as collected, before ranking and filtering.
RawMatches(r) ==
    CASE r.endpoint = "find" -> find(TheSearcher, r.query).results
      [] r.endpoint = "regex" ->
           search_collect(TheSearcher,
               Map_search(map, RegexSearchAutomaton_from_str(r.regex).automaton))
      [] OTHER ->
           search_with_dist_collect(TheSearcher,
               KeptByDistance(Map_search(map, GivenAutomaton(r)), r.query,
                              GivenMaxDist(r)),
               r.query)

\* The ranking of an entry point: none in find, results.sort() elsewhere.
Ranked(r, results) ==
    CASE r.endpoint = "find" -> results
      [] r.endpoint = "regex" -> sort_results(results)
      [] OTHER -> sort_results_with_dist(results)

\* C12: in every entry point the filter is applied to the ranked list, and
\* the response equals the ranking of the filtered raw matches; the
\* survivors keep the relative order they have in the ranked list.
C12_FilterCommutesWithRank ==
    AnsweredWithList =>
      LET raw == RawMatches(req.v)
          ranked == Ranked(req.v, raw)
      IN  /\ Answer = filter_results(ranked, req.v.filter)
          /\ Answer = Ranked(req.v, filter_results(raw, req.v.filter))
          /\ Answer = Matching(ranked, req.v.filter)

\* A filtered distance search in which the filter drops results and the
\* surviving raw matches are not in ranked order.
C12_Witness ==
    /\ AnsweredWithList
    /\ req.v.endpoint \in DistanceEndpoints
    /\ req.v.filter.some
    /\ Len(Answer) >= 2
    /\ LET raw == RawMatches(req.v)
       IN  /\ Len(Answer) < Len(raw)
           /\ Answer # filter_results(raw, req.v.filter)

(***************************************************************************)
(* Properties of ingestion.                                                *)
(***************************************************************************)
FromPrimary(typ) == typ.kind \in {"Name", "AsciiName"}

\* C13: every group lists its provenances in the order in which the pairs
\* of its term were ingested; pairs of the primary files come before pairs
\* of the alternate-names files.
C13_GroupsInFirstSeenOrder ==
    Built =>
      \A i \in 1..Len(search_matches) :
        /\ search_matches[i] = ProvenancesOf(query_pairs, search_terms[i])
        /\ \A j, k \in 1..Len(search_matches[i]) :
             (j < k /\ FromPrimary(search_matches[i][k]))
               => FromPrimary(search_matches[i][j])

\* A group of three provenances: an AsciiName seen before a Name, which is
\* not their rank order, then a provenance of an alternate-names row.
C13_Witness ==
    /\ Built
    /\ \E i \in 1..Len(search_matches) :
         /\ Len(search_matches[i]) = 3
         /\ MatchType_cmp(search_matches[i][1], search_matches[i][2]) > 0
         /\ FromPrimary(search_matches[i][2])
         /\ ~FromPrimary(search_matches[i][3])

\* The primary rows read so far were all accepted.
PrimaryAccepted == pc \in {"primary", "alternate", "index", "built"}

PairsOfKind(pairs, kind) == {k \in 1..Len(pairs) : pairs[k][2].kind = kind}

\* C14: a primary row emits one pair (name, Name{id}) and, before it, a pair
\* (ascii name, AsciiName{id}) iff the ASCII name differs from the name; it
\* emits no other pair.
C14_PrimaryRowPairs ==
    /\ pc = "primary" =>
         \A row \in PrimaryRows :
           LET r == parse_geonames_row(query_pairs, geonames, row)
           IN  r.ok =>
                 r.query_pairs = query_pairs \o
                   (IF row.asciiname # row.name
                    THEN << <<row.asciiname, AsciiName(row.id)>>,
                            <<row.name, Name(row.id)>> >>
                    ELSE << <<row.name, Name(row.id)>> >>)
    /\ PrimaryAccepted =>
         /\ Cardinality(PairsOfKind(query_pairs, "Name")) = rows_read.primary
         /\ \A k \in PairsOfKind(query_pairs, "AsciiName") :
              /\ k < Len(query_pairs)
              /\ query_pairs[k + 1][2] = Name(query_pairs[k][2].id)
              /\ query_pairs[k + 1][1] # query_pairs[k][1]
         /\ \A k \in 1..Len(query_pairs) :
              FromPrimary(query_pairs[k][2]) \/ pc # "primary"

\* Two primary rows read: one whose ASCII name differs from its name, one
\* whose ASCII name equals it.
C14_Witness ==
    /\ pc = "primary"
    /\ rows_read.primary = 2
    /\ Len(query_pairs) = 3
    /\ Cardinality(PairsOfKind(query_pairs, "AsciiName")) = 1

\* The flag columns of an alternate-names row that hold the literal "1".
FlagColumns == <<"preferred", "short", "colloquial", "historic">>
FlagsSet(row) == {i \in 1..4 : row[FlagColumns[i]] = "1"}

\* The row passes the language and identifier tests and has its name and
\* flag columns.
Accepted(row) ==
    /\ HasCol(row, 7)
    /\ ParseU64Ok(row.id)
    /\ contains_key(geonames, row.id)
    /\ languages.some => row.lang \in languages.v

\* C15: an accepted alternate-names row maps its four flags to one
\* provenance: preferred alone PreferredName, short alone ShortName,
\* colloquial alone Colloquial, historic alone Historic with from/to (empty
\* when the column is absent), any other combination Alternate; no
\* combination is an error.
C15_FlagsToMatchType ==
    pc = "alternate" =>
      \A row \in AlternateRows :
        Accepted(row) =>
          LET r == parse_alternate_names_row(query_pairs, geonames, languages, row)
              set == FlagsSet(row)
              from == IF row.ncols > 8 THEN row.from ELSE ""
              to == IF row.ncols > 9 THEN row.to ELSE ""
              expected ==
                  IF set = {1} THEN [kind |-> "PreferredName", id |-> row.id, lang |-> row.lang]
                  ELSE IF set = {2} THEN [kind |-> "ShortName", id |-> row.id, lang |-> row.lang]
                  ELSE IF set = {3} THEN [kind |-> "Colloquial", id |-> row.id, lang |-> row.lang]
                  ELSE IF set = {4}
                    THEN [kind |-> "Historic", id |-> row.id, lang |-> row.lang,
                          from |-> from, to |-> to]
                  ELSE [kind |-> "Alternate", id |-> row.id, lang |-> row.lang]
          IN  /\ r.ok
              /\ r.query_pairs = Append(query_pairs, <<row.name, expected>>)

\* A row with the historic flag alone and no date columns was ingested as
\* Historic with empty dates, and rows with several flags set are accepted.
C15_Witness ==
    /\ pc = "alternate"
    /\ rows_read.alternate = 1
    /\ Len(query_pairs) >= 1
    /\ Last(query_pairs)[2].kind = "Historic"
    /\ Last(query_pairs)[2].from = ""
    /\ \E row \in AlternateRows : Accepted(row) /\ Cardinality(FlagsSet(row)) >= 2

\* The row has its eight mandatory columns and an identifier that parses.
WellFormed(row) == HasCol(row, 7) /\ ParseU64Ok(row.id)
LanguageAllowed(lang) == languages.some => lang \in languages.v

\* C16: a well-formed alternate-names row contributes one pair iff its
\* language is allowed (or no language list was given) and its identifier is
\* in the Entry Store; otherwise it contributes no pair and is no error.
C16_AlternateRowAcceptance ==
    /\ pc = "alternate" =>
         \A row \in AlternateRows :
           WellFormed(row) =>
             LET r == parse_alternate_names_row(query_pairs, geonames, languages, row)
             IN  /\ r.ok
                 /\ IF LanguageAllowed(row.lang) /\ row.id \in DOMAIN geonames
                    THEN /\ Len(r.query_pairs) = Len(query_pairs) + 1
                         /\ Front(r.query_pairs) = query_pairs
                         /\ Last(r.query_pairs)[1] = row.name
                         /\ Last(r.query_pairs)[2].id = row.id
                         /\ Last(r.query_pairs)[2].lang = row.lang
                    ELSE r.query_pairs = query_pairs
    /\ \A k \in 1..Len(query_pairs) :
         ~FromPrimary(query_pairs[k][2]) =>
           /\ query_pairs[k][2].id \in DOMAIN geonames
           /\ LanguageAllowed(query_pairs[k][2].lang)

\* With a language list given and a non-empty Entry Store, a row was read
\* and skipped without an error, while the rows on offer include one of a
\* language not allowed, one of an unknown identifier and one that is
\* accepted.
C16_Witness ==
    /\ pc = "alternate"
    /\ rows_read.alternate = 1
    /\ languages.some
    /\ query_pairs # <<>>
    /\ \A k \in 1..Len(query_pairs) : FromPrimary(query_pairs[k][2])
    /\ \E row \in AlternateRows :
         WellFormed(row) /\ ~LanguageAllowed(row.lang) /\ row.id \in DOMAIN geonames
    /\ \E row \in AlternateRows :
         WellFormed(row) /\ LanguageAllowed(row.lang) /\ row.id \notin DOMAIN geonames
    /\ \E row \in AlternateRows : Accepted(row)

\* The row lacks the identifier, name or ASCII-name column, or its
\* identifier is no unsigned integer.
Malformed(row) == row.ncols < 3 \/ row.id < 0

NoSearcher == search_terms = <<>> /\ search_matches = <<>> /\ map = <<>>

C17_RowRejected ==
    /\ pc = "primary" =>
         \A row \in PrimaryRows :
           Malformed(row) => ~parse_geonames_row(query_pairs, geonames, row).ok
    /\ (pc = "primary" /\ rows_read.primary = 0) =>
         \A gn_rows \in SeqsUpTo(PrimaryRows, MaxPrimaryRows) :
           (\E i \in 1..Len(gn_rows) : Malformed(gn_rows[i]))
             => build(gn_rows, None, None).status = "failed"
    /\ pc = "failed" => NoSearcher

C18_RecordNeverReplaced ==
    [][\A id \in DOMAIN geonames :
          id \in DOMAIN geonames' /\ geonames'[id] = geonames[id]]_vars

(***************************************************************************)
(* Properties of startup.                                                  *)
(***************************************************************************)
BuildFailed == pc \in {"failed", "panicked"}

\* The index is the one the whole build makes of the ingested pairs.
IndexComplete ==
    LET b == build_index(query_pairs)
    IN  /\ ~b.panic
        /\ search_terms = b.search_terms
        /\ search_matches = b.search_matches
        /\ map = b.map

C19_ServedOnlyWhenBuilt ==
    /\ req.some => (pc = "built" /\ IndexComplete)
    /\ resp.some => req.some
    /\ BuildFailed => ~req.some

\* C19: no query is answered before ingestion and index building have
\* completed with Ok; after a failed build nothing more happens: startup is
\* over and no query is ever served.
C19_BuildBeforeServe == [](C19_ServedOnlyWhenBuilt) /\ [][~BuildFailed]_vars

\* A query answered with results by a searcher built from ingested rows of
\* both kinds.
C19_Witness ==
    /\ pc = "built"
    /\ rows_read.primary >= 1
    /\ rows_read.alternate >= 1
    /\ req.some
    /\ resp.v.status = 200
    /\ Len(resp.v.body.results) >= 2

(***************************************************************************)
(* Properties of concurrent queries.                                       *)
(***************************************************************************)
\* The list the request gets when it is the only one running.
Alone(request) == route(TheSearcher, request).body.results

C20_SameAsAlone ==
    \A w \in Workers :
      tasks[w].stage = "done" => tasks[w].results = Alone(tasks[w].request)

\* C20: after the build no step of a query changes the Entry Store, the
\* term groups or the transducer, and under every interleaving of the
\* handlers each query returns the list it returns when run alone.
C20_QueriesIndependent ==
    [](C20_SameAsAlone) /\ [][UNCHANGED <<geonames, search_matches, map>>]_vars

\* A handler has finished with results while the other, of another entry
\* point, is in the middle of its stream.
C20_Witness ==
    \E w, v \in Workers :
      /\ tasks[w].stage = "done"
      /\ Len(tasks[w].results) >= 2
      /\ tasks[v].stage = "search"
      /\ tasks[v].cursor > 1
      /\ tasks[v].cursor <= Len(map)
      /\ tasks[v].results # <<>>
      /\ tasks[v].request.endpoint # tasks[w].request.endpoint

(***************************************************************************)
(* The worked example of ingestion.                                        *)
(***************************************************************************)
HasKind(pairs, kind) == \E i \in 1..Len(pairs) : pairs[i][2].kind = kind

Positions(a, b) == (0..Len(a)) \X (0..Len(b))

\* Equal characters are carried over without an edit.
RECURSIVE Carried(_, _, _)
Carried(a, b, reached) ==
    LET more == reached \cup
                  { <<p[1] + 1, p[2] + 1>> :
                      p \in { q \in reached : /\ q[1] < Len(a)
                                              /\ q[2] < Len(b)
                                              /\ a[q[1] + 1] = b[q[2] + 1] } }
    IN  IF more = reached THEN reached ELSE Carried(a, b, more)

\* One more deletion, insertion or substitution.
Edited(a, b, reached) ==
    reached \cup
      (({ <<p[1] + 1, p[2]>> : p \in reached } \cup
        { <<p[1], p[2] + 1>> : p \in reached } \cup
        { <<p[1] + 1, p[2] + 1>> : p \in reached }) \cap Positions(a, b))

RECURSIVE EditsNeeded(_, _, _, _)
EditsNeeded(a, b, reached, edits) ==
    IF <<Len(a), Len(b)>> \in reached THEN edits
    ELSE EditsNeeded(a, b, Carried(a, b, Edited(a, b, reached)), edits + 1)

EditDistance(a, b) == EditsNeeded(a, b, Carried(a, b, {<<0, 0>>}), 0)

SubsequenceOfFrnkfrt == Answered("fuzzy") /\ req.v.query = Frnkfrt /\ req.v.max_dist = 0

\* C22: every result of search_with_dist carries the edit distance between
\* the raw query and the key it matched, the same for every provenance of
\* the key; the subsequence search for "Frnkfrt" without a distance limit
\* returns the key "Frankfurt", when the index holds it, with distance 2.
C22_DistanceOfKey ==
    AnsweredWithDist =>
        LET results == Answer
        IN  /\ \A i \in 1..Len(results) :
                 results[i].distance = EditDistance(req.v.query, results[i].key.name)
            /\ \A i \in 1..Len(results), j \in 1..Len(results) :
                 results[i].key.name = results[j].key.name
                 => results[i].distance = results[j].distance
            /\ (SubsequenceOfFrnkfrt /\ Map_get(map, Frankfurt).some)
               => \E i \in 1..Len(results) :
                    results[i].key.name = Frankfurt /\ results[i].distance = 2

\* "Frnkfrt" has found "Frankfurt" under the provenances of two records.
C22_Witness ==
    /\ AnsweredWithDist
    /\ SubsequenceOfFrnkfrt
    /\ \E i \in 1..Len(Answer), j \in 1..Len(Answer) :
         /\ i # j
         /\ Answer[i].key.name = Frankfurt
         /\ Answer[j].key.name = Frankfurt
         /\ Answer[i].distance = 2

(***************************************************************************)
(* Prefix search.                                                          *)
(***************************************************************************)
IsPrefix(s, t) == Len(s) <= Len(t) /\ SubSeq(t, 1, Len(s)) = s

\* The group of a key holds a provenance whose record matches the filter.
GroupMatchesFilter(ordinal, filter) ==
    \E j \in 1..Len(search_matches[ordinal + 1]) :
        MatchesFilter(geonames[MatchType_id(search_matches[ordinal + 1][j])], filter)

\* C23: starts_with returns results for a key iff the bytes of the key begin
\* with the bytes of the query, the key passes the distance filter (none
\* when max_dist is 0) and a record of the key passes the attribute filter.
C23_StartsWithIsPrefix ==
    AnsweredOk("starts_with") =>
      /\ \A i \in 1..Len(map) :
           Contributes(map[i][1]) <=>
             /\ IsPrefix(req.v.query, map[i][1])
             /\ \/ req.v.max_dist = 0
                \/ EditDistance(req.v.query, map[i][1]) <= req.v.max_dist
             /\ GroupMatchesFilter(map[i][2], req.v.filter)
      /\ \A i \in 1..Len(Answer) : Map_get(map, Answer[i].key.name).some

\* A prefix search that returns one key and leaves out another that holds
\* the query further on.
C23_Witness ==
    /\ AnsweredOk("starts_with")
    /\ \E i, j \in 1..Len(map) :
         /\ Contributes(map[i][1])
         /\ ~IsPrefix(req.v.query, map[j][1])
         /\ \E k \in 1..Len(map[j][1]) : map[j][1][k] = req.v.query[1]
         /\ ~Contributes(map[j][1])

(***************************************************************************)
(* A regular expression that does not compile.                             *)
(***************************************************************************)
\* The pattern opens a group it never closes.
InvalidPattern(pattern) == \E i \in 1..Len(pattern) : pattern[i] = RegexOpenGroup[1]

\* C24: regex answers a pattern that does not compile with 400 and the
\* RegexError message; the compilation is attempted once, the transducer is
\* not traversed, no result list is returned and the handler does not panic.
C24_InvalidRegexRejected ==
    (Answered("regex") /\ InvalidPattern(req.v.regex)) =>
      /\ ~resp.v.panic
      /\ resp.v.status = 400
      /\ DOMAIN resp.v.body = {"error"}
      /\ resp.v.body.error = "RegexError"
      /\ resp.v.ops = <<"RegexSearchAutomaton::from_str">>

\* An invalid pattern has been answered over an index with keys to traverse.
C24_Witness ==
    /\ Answered("regex")
    /\ InvalidPattern(req.v.regex)
    /\ resp.v.status = 400
    /\ map # <<>>

(***************************************************************************)
(* The prefix automaton, byte by byte.                                     *)
(***************************************************************************)
\* The automaton of the request in hand matches after these bytes.
MatchesAfter(consumed) == Accepts(StartsWith(req.v.query), consumed)

\* The bytes consumed so far at each step along the keys of the index.
ConsumedSoFar ==
    UNION { { SubSeq(map[i][1], 1, n) : n \in 0..Len(map[i][1]) } : i \in 1..Len(map) }

\* C25 as stated: the prefix automaton accepts iff the bytes consumed so far
\* are a prefix of the query.
C25_ConsumedIsPrefixOfQuery ==
    AnsweredOk("starts_with") =>
      \A consumed \in ConsumedSoFar :
        MatchesAfter(consumed) <=> IsPrefix(consumed, req.v.query)

\* C25 amended: the prefix automaton accepts iff the query is a prefix of
\* the bytes consumed so far, that is, the bytes consumed begin with the
\* query; once it accepts it accepts after every further byte.
C25_QueryIsPrefixOfConsumed ==
    AnsweredOk("starts_with") =>
      \A consumed \in ConsumedSoFar :
        MatchesAfter(consumed) <=> IsPrefix(req.v.query, consumed)

\* Along one key the automaton does not match while the key is inside the
\* query, and matches past the end of the query.
C25_Witness ==
    /\ AnsweredOk("starts_with")
    /\ \E short \in ConsumedSoFar, long \in ConsumedSoFar :
         /\ IsPrefix(short, req.v.query) /\ short # req.v.query
         /\ ~MatchesAfter(short)
         /\ IsPrefix(req.v.query, long) /\ long # req.v.query
         /\ MatchesAfter(long)
         /\ Contributes(long)

(***************************************************************************)
(* The subsequence automaton, byte by byte.                                *)
(***************************************************************************)
\* s is left when some characters of t are deleted.
RECURSIVE IsSubsequence(_, _)
IsSubsequence(s, t) ==
    IF s = <<>> THEN TRUE
    ELSE IF t = <<>> THEN FALSE
    ELSE \/ Head(s) = Head(t) /\ IsSubsequence(Tail(s), Tail(t))
         \/ IsSubsequence(s, Tail(t))

\* The number of query characters matched so far: the longest prefix of the
\* query that is a subsequence of the bytes consumed.
Matched(query, consumed) ==
    CHOOSE n \in 0..Len(query) :
        /\ IsSubsequence(SubSeq(query, 1, n), consumed)
        /\ n < Len(query) => ~IsSubsequence(SubSeq(query, 1, n + 1), consumed)

\* The state of the automaton of the request after n bytes of the key.
SubsequenceState(key, n) ==
    RunAutomaton(Subsequence(req.v.query), Subsequence_start(Subsequence(req.v.query)),
                 SubSeq(key, 1, n))

DistanceOf(result) == IF "distance" \in DOMAIN result THEN result.distance ELSE 0

\* The comparator of the ranking cannot tell the two results apart.
CompareEqual(x, y) ==
    DistanceOf(x) = DistanceOf(y) /\ Rank(x) = Rank(y) /\ Ident(x) = Ident(y)

\* The provenances of a list of results.
Provenances(results) == [i \in 1..Len(results) |-> results[i].key.typ]

AnsweredRanked == AnsweredWithList /\ req.v.endpoint # "find"

\* C27: the ranking is a stable sort whose comparator ignores the term:
\* results that compare equal (same distance, provenance rank and
\* identifier) stay in traversal order, that is in byte order of their keys
\* and, under one key, in the order of the key's group; sorting the ranked
\* list again leaves it unchanged.
C27_RankingStable ==
    AnsweredRanked =>
      LET ranked == Answer
      IN  /\ \A i \in 1..Len(ranked), j \in 1..Len(ranked) :
               (i < j /\ CompareEqual(ranked[i], ranked[j]))
               => StrLessEq(ranked[i].key.name, ranked[j].key.name)
          /\ \A i \in 1..Len(ranked) :
               LET x == ranked[i]
                   group == search_matches[Map_get(map, x.key.name).v + 1]
               IN  Provenances(SelectSeq(ranked,
                       LAMBDA y : y.key.name = x.key.name /\ CompareEqual(x, y)))
                   = SelectSeq(group, LAMBDA typ :
                         MatchType_ord(typ) = Rank(x) /\ MatchType_id(typ) = Ident(x))
          /\ Ranked(req.v, ranked) = ranked

\* Two results under different keys compare equal.
C27_Witness ==
    /\ AnsweredRanked
    /\ \E i \in 1..Len(Answer), j \in 1..Len(Answer) :
         /\ i < j
         /\ CompareEqual(Answer[i], Answer[j])
         /\ Answer[i].key.name # Answer[j].key.name

(***************************************************************************)
(* Bounded edit distance search.                                           *)
(***************************************************************************)
\* The bound in force: max_dist when supplied, else 1.
EffectiveBound(r) == IF r.max_dist.some THEN r.max_dist.v ELSE 1

AnsweredBatch == req.some /\ req.v.endpoint = "process"

\* The request one entity would make of the endpoint of the batch's mode.
SingleRequest(entity, options) ==
    [endpoint |-> options.mode, query |-> entity.text, filter |-> options.filter,
     max_dist |-> IF "max_dist" \in DOMAIN options THEN options.max_dist ELSE 0,
     state_limit |-> IF "state_limit" \in DOMAIN options THEN options.state_limit
                     ELSE None,
     needed |-> entity.needed]

\* The construction of the entity's automaton is refused.
ConstructionFails(entity, options) ==
    /\ options.mode = "levenshtein"
    /\ entity.needed > (IF options.state_limit.some THEN options.state_limit.v
                        ELSE DefaultStateLimit)

\* The ranked and filtered list of one entity: what its mode's endpoint
\* answers for its text, nothing when the endpoint answers with an error.
ListOf(entity, options) ==
    LET single == route(TheSearcher, SingleRequest(entity, options))
    IN  IF single.status = 200
        THEN [i \in 1..Len(single.body.results) |->
                 [key |-> single.body.results[i].key,
                  entry |-> single.body.results[i].entry,
                  distance |-> DistanceOf(single.body.results[i])]]
        ELSE <<>>

\* The position of the entity with this reference in the queries.
QueryPosition(queries, reference) ==
    CHOOSE i \in 1..Len(queries) : queries[i].reference = reference

\* Every annotation refers to an entity of the request, and annotations of
\* different entities follow the order of the queries.
InQueryOrder(annotations, queries) ==
    /\ \A i \in 1..Len(annotations) :
         \E k \in 1..Len(queries) : queries[k].reference = annotations[i].reference
    /\ \A i \in 1..Len(annotations), j \in 1..Len(annotations) :
         i < j => QueryPosition(queries, annotations[i].reference)
                  <= QueryPosition(queries, annotations[j].reference)

AnnotationsOf(annotations, entity) ==
    SelectSeq(annotations, LAMBDA a : a.reference = entity.reference)

\* C29: in batch processing in levenshtein mode an entity whose automaton
\* is refused contributes no annotation and no error: the response is still
\* 200 with a result list, and the annotations are those the request would
\* get without the refused entities, in query order.
C29_RefusedEntitySkipped ==
    (AnsweredBatch /\ req.v.options.mode = "levenshtein") =>
      LET options == req.v.options
          queries == req.v.queries
          others == SelectSeq(queries, LAMBDA e : ~ConstructionFails(e, options))
      IN  /\ ~resp.v.panic
          /\ resp.v.status = 200
          /\ DOMAIN resp.v.body = {"results"}
          /\ \A k \in 1..Len(queries) :
               ConstructionFails(queries[k], options)
               => AnnotationsOf(Answer, queries[k]) = <<>>
          /\ Answer = v1_process(TheSearcher, [req.v EXCEPT !.queries = others]).body.results
          /\ InQueryOrder(Answer, others)

\* A refused entity stands between two entities that are annotated.
C29_Witness ==
    /\ AnsweredBatch
    /\ req.v.options.mode = "levenshtein"
    /\ Len(req.v.queries) >= 3
    /\ ConstructionFails(req.v.queries[2], req.v.options)
    /\ AnnotationsOf(Answer, req.v.queries[1]) # <<>>
    /\ AnnotationsOf(Answer, req.v.queries[3]) # <<>>

\* C30: in batch processing, for every entity and mode, the selection
\* "first" yields the first element of the entity's ranked and filtered
\* list when the list is not empty and nothing otherwise, "all" yields the
\* whole list in ranked order; every annotation carries the reference of
\* its entity, and annotations of different entities are in query order.
C30_ResultSelection ==
    (AnsweredBatch /\ ~resp.v.panic) =>
      LET options == req.v.options
          queries == req.v.queries
      IN  /\ InQueryOrder(Answer, queries)
          /\ \A k \in 1..Len(queries) :
               LET list == ListOf(queries[k], options)
                   selected == IF req.v.result_selection = "first" /\ list # <<>>
                               THEN <<list[1]>>
                               ELSE list
               IN  AnnotationsOf(Answer, queries[k])
                   = [i \in 1..Len(selected) |->
                        [reference |-> queries[k].reference, annotation |-> selected[i]]]

\* Under "first" one entity has a list of several results and another an
\* empty one.
C30_Witness ==
    /\ AnsweredBatch
    /\ ~resp.v.panic
    /\ req.v.result_selection = "first"
    /\ \E k, l \in 1..Len(req.v.queries) :
         /\ Len(ListOf(req.v.queries[k], req.v.options)) >= 2
         /\ ListOf(req.v.queries[l], req.v.options) = <<>>
         /\ AnnotationsOf(Answer, req.v.queries[k]) # <<>>

====
